---- MODULE Spec2Model ----
(***************************************************************************)
(* A model of the AI schema architect (src/generate_schemam.py):           *)
(*   - TextProcessor.to_camel_case, the name canonicalizer;                *)
(*   - AIArchitect._process_architectural_plan, the plan normalizer;       *)
(*   - CodeCorrector.correct_generated_code and its thirteen rewrite       *)
(*     rules;                                                              *)
(*   - CodeValidator.validate_generated_code and its thirteen checks;      *)
(*   - SchemaArchitect.run, the pipeline from the plan to the files;       *)
(* and of the UI generator (src/ui-generator.py):                          *)
(*   - get_all_sanity_schemas_as_json, the reader of sanity.types.ts;      *)
(*   - manual_parse_fallback and parse_and_create_files, the readers of    *)
(*     the AI's answer.                                                    *)
(* Names are sequences of one-character strings, so that splitting,        *)
(* capitalizing, lower-casing and code-point ordering are computed as the  *)
(* Python code computes them.                                              *)
(***************************************************************************)
EXTENDS Integers, Sequences, FiniteSets, TLC

VARIABLES
    \* ---- the plan normalizer ----
    config,      \* ValidationConfig: required_global_docs, required_objects
    rawPlan,     \* the plan dict as extracted from the AI response
    sections,    \* the names of the Figma sections, in order
    plan,        \* the plan dict (mutated in place by the normalizer)
    prevPlan,    \* the plan dict as it was before the latest call
    calls,       \* number of _process_architectural_plan calls made
    \* ---- the name canonicalizer ----
    text,        \* the text given to to_camel_case
    ident,       \* the latest result of to_camel_case
    prevIdent,   \* the value to_camel_case was last applied to
    canonCalls,  \* number of to_camel_case applications made
    \* ---- the code corrector ----
    code,                 \* the code text (a sequence of tokens)
    all_valid_names,      \* the valid identifiers
    expected_type,        \* the expected kind, or None
    original_code,        \* the code as the current call received it
    corrections_applied,  \* the labels of the corrections made by the call
    pc,                   \* the rule about to run; 0 outside a call
    corrCalls,            \* number of calls (of applications of a rule) made
    returned,             \* the code each of them returned, in order
    \* ---- the code validator ----
    issues,               \* what each validate_generated_code call on the
                          \* code returned, since the latest correction
    \* ---- the main execution flow (SchemaArchitect.run) ----
    stage,                \* the phase that run() is in
    cursor,               \* the position of the loop of that phase
    responses,            \* what the AI returned for each planned schema
    all_schema_data,      \* the schemas whose generation succeeded
    corrected_schemas,    \* the schemas after correction
    disk,                 \* the files of the project, by path
    writes,               \* the write_text calls made on schema files
    \* ---- the UI generator (src/ui-generator.py) ----
    types_content,        \* the text of sanity.types.ts
    all_schemas,          \* what get_all_sanity_schemas_as_json built
    ai_response,          \* the text of the AI's answer
    files_created,        \* parse_and_create_files: file name -> path
    files,                \* manual_parse_fallback: the (filepath, content) list
    uiCalls               \* number of calls made of the function under study

planVars == <<config, rawPlan, sections, plan, prevPlan, calls>>
canonVars == <<text, ident, prevIdent, canonCalls>>
corrVars == <<code, all_valid_names, expected_type, original_code,
              corrections_applied, pc, corrCalls, returned, issues>>
pipeVars == <<stage, cursor, responses, all_schema_data, corrected_schemas,
              disk, writes>>
uiVars == <<types_content, all_schemas, ai_response, files_created, files,
            uiCalls>>
vars == <<planVars, canonVars, corrVars, pipeVars, uiVars>>

(***************************************************************************)
(* Bounds of the model.                                                    *)
(***************************************************************************)
\* total number of raw names (documents + objects + sections) of one input
MaxNames == 3
\* longest text given to to_camel_case in SpecCanon
MaxTextLen == 3

(***************************************************************************)
(* Characters and Python's str operations.                                 *)
(***************************************************************************)
LowerLetters == <<"a","b","c","d","e","f","g","h","i","j","k","l","m",
                  "n","o","p","q","r","s","t","u","v","w","x","y","z">>
UpperLetters == <<"A","B","C","D","E","F","G","H","I","J","K","L","M",
                  "N","O","P","Q","R","S","T","U","V","W","X","Y","Z">>

IndexIn(c, letters) == CHOOSE i \in 1..Len(letters) : letters[i] = c
IsLower(c) == \E i \in 1..Len(LowerLetters) : LowerLetters[i] = c
IsUpper(c) == \E i \in 1..Len(UpperLetters) : UpperLetters[i] = c

\* the characters of the model's texts
Chars == {LowerLetters[i] : i \in 1..Len(LowerLetters)}
             \cup {UpperLetters[i] : i \in 1..Len(UpperLetters)}
             \cup {" ", "-", "_"}

\* str.lower() and str.upper() on one character, as tables
LowerOf == [c \in Chars |->
               IF IsUpper(c) THEN LowerLetters[IndexIn(c, UpperLetters)] ELSE c]
UpperOf == [c \in Chars |->
               IF IsLower(c) THEN UpperLetters[IndexIn(c, LowerLetters)] ELSE c]
CharLower(c) == IF c \in DOMAIN LowerOf THEN LowerOf[c] ELSE c
CharUpper(c) == IF c \in DOMAIN UpperOf THEN UpperOf[c] ELSE c

\* the Unicode code point, which orders Python's str comparison
CodePointOf == [c \in Chars |->
    IF IsUpper(c) THEN 64 + IndexIn(c, UpperLetters)
    ELSE IF IsLower(c) THEN 96 + IndexIn(c, LowerLetters)
    ELSE IF c = " " THEN 32
    ELSE IF c = "-" THEN 45
    ELSE 95]   \* "_"
CodePoint(c) == CodePointOf[c]

\* str.lower()
lower(s) == [i \in 1..Len(s) |-> CharLower(s[i])]

\* Python's  a < b  on str
RECURSIVE StrLess(_, _)
StrLess(a, b) ==
    IF b = <<>> THEN FALSE
    ELSE IF a = <<>> THEN TRUE
    ELSE IF CodePoint(Head(a)) # CodePoint(Head(b))
         THEN CodePoint(Head(a)) < CodePoint(Head(b))
    ELSE StrLess(Tail(a), Tail(b))

\* needle in haystack, on str
Contains(haystack, needle) ==
    \E i \in 0..(Len(haystack) - Len(needle)) :
        SubSeq(haystack, i + 1, i + Len(needle)) = needle

(***************************************************************************)
(* Python's list operations.                                               *)
(***************************************************************************)
Range(s) == {s[i] : i \in 1..Len(s)}
InList(x, s) == x \in Range(s)

\* list.remove(x): removes the first occurrence
ListRemove(s, x) ==
    LET i == CHOOSE j \in 1..Len(s) : s[j] = x /\ \A k \in 1..(j - 1) : s[k] # x
    IN  SubSeq(s, 1, i - 1) \o SubSeq(s, i + 1, Len(s))

\* list.sort() / sorted() on a list of str
ListSort(s) == SortSeq(s, StrLess)

\* list(set(...)): the elements once each, in some order
RECURSIVE SetToList(_)
SetToList(S) ==
    IF S = {} THEN <<>>
    ELSE LET x == CHOOSE y \in S : TRUE IN <<x>> \o SetToList(S \ {x})

(***************************************************************************)
(* TextProcessor                                                           *)
(***************************************************************************)
\* the character class [\s_-]
IsSeparator(c) == c \in {" ", "_", "-"}

\* re.split(r"[\s_-]+", text): the words between runs of separators; a
\* leading or trailing run yields an empty first or last word
RECURSIVE SplitFrom(_, _, _, _)
SplitFrom(rest, words, cur, inRun) ==
    IF rest = <<>> THEN Append(words, cur)
    ELSE IF IsSeparator(Head(rest))
         THEN IF inRun THEN SplitFrom(Tail(rest), words, cur, TRUE)
              ELSE SplitFrom(Tail(rest), Append(words, cur), <<>>, TRUE)
    ELSE SplitFrom(Tail(rest), words, Append(cur, Head(rest)), FALSE)

re_split_separators(s) == SplitFrom(s, <<>>, <<>>, FALSE)

\* str.capitalize(): first character upper-cased, the rest lower-cased
capitalize(word) ==
    [i \in 1..Len(word) |-> IF i = 1 THEN CharUpper(word[i]) ELSE CharLower(word[i])]

RECURSIVE JoinWords(_)
JoinWords(words) ==
    IF words = <<>> THEN <<>> ELSE Head(words) \o JoinWords(Tail(words))

to_pascal_case(s) ==
    LET words == re_split_separators(s)
    IN  JoinWords([i \in 1..Len(words) |-> capitalize(words[i])])

to_camel_case(s) ==
    LET pascal == to_pascal_case(s)
    IN  IF pascal # <<>> THEN <<CharLower(pascal[1])>> \o Tail(pascal) ELSE <<>>

(***************************************************************************)
(* Names.                                                                  *)
(***************************************************************************)
siteSettings == <<"s","i","t","e","S","e","t","t","i","n","g","s">>
siteConfig == <<"s","i","t","e","C","o","n","f","i","g">>
globalSettings == <<"g","l","o","b","a","l","S","e","t","t","i","n","g","s">>
settings == <<"s","e","t","t","i","n","g","s">>
page == <<"p","a","g","e">>
seo == <<"s","e","o">>
header == <<"h","e","a","d","e","r">>
footer == <<"f","o","o","t","e","r">>

\* names as an AI response or a Figma file spells them
raw_Page == <<"P","a","g","e">>
raw_site_settings == <<"s","i","t","e"," ","s","e","t","t","i","n","g","s">>
raw_team_member == <<"t","e","a","m"," ","m","e","m","b","e","r">>
raw_Hero == <<"H","e","r","o">>
raw_Header == <<"H","e","a","d","e","r">>
raw_Footer == <<"F","o","o","t","e","r">>
raw_Header_Footer == <<"H","e","a","d","e","r"," ","F","o","o","t","e","r">>

(***************************************************************************)
(* AIArchitect._process_architectural_plan                                 *)
(***************************************************************************)
\* plan.setdefault(category, []) followed by plan[category]
PlanGet(p, category) == IF category \in DOMAIN p THEN p[category] ELSE <<>>

\* a plausible slip: the names are sorted without set(), duplicates stay
CanonicalizeCategory_NoSet(names) ==
    ListSort([i \in 1..Len(names) |-> to_camel_case(names[i])])

\* sorted(list(set([to_camel_case(name) for name in plan[category]])))
CanonicalizeCategory(names) ==
    ListSort(SetToList({to_camel_case(names[i]) : i \in 1..Len(names)}))

sitesettings_variants == <<siteSettings, siteConfig, globalSettings, settings>>

\* any(variant.lower() == name.lower() for variant in sitesettings_variants)
IsSiteSettingsVariant(name) ==
    \E i \in 1..Len(sitesettings_variants) :
        lower(sitesettings_variants[i]) = lower(name)

\* for variant in found: if variant in documents: documents.remove(variant)
RECURSIVE RemoveEach(_, _)
RemoveEach(documents, found) ==
    IF found = <<>> THEN documents
    ELSE RemoveEach(IF InList(Head(found), documents)
                    THEN ListRemove(documents, Head(found))
                    ELSE documents,
                    Tail(found))

\* a plausible slip: only the first variant found is removed
CollapseSiteSettings_FirstOnly(documents) ==
    LET sitesettings_found == SelectSeq(documents, IsSiteSettingsVariant)
    IN  IF sitesettings_found # <<>>
        THEN Append(ListRemove(documents, Head(sitesettings_found)), siteSettings)
        ELSE documents

\* "Deduplicate siteSettings variants": only plan["documents"] is searched
CollapseSiteSettings(documents) ==
    LET sitesettings_found == SelectSeq(documents, IsSiteSettingsVariant)
    IN  IF sitesettings_found # <<>>
        THEN Append(RemoveEach(documents, sitesettings_found), siteSettings)
        ELSE documents

\* a plausible slip: the required names are never added
EnsureRequired_Skip(list, required) == list

\* for name in required: if name not in list: list.append(name)
RECURSIVE EnsureRequired(_, _)
EnsureRequired(list, required) ==
    IF required = <<>> THEN list
    ELSE EnsureRequired(IF ~InList(Head(required), list)
                        THEN Append(list, Head(required))
                        ELSE list,
                        Tail(required))

\* the body of one branch of the section loop, for keyword header or footer
Promote(p, keyword) ==
    [documents |-> IF ~InList(keyword, p.documents)
                   THEN Append(p.documents, keyword) ELSE p.documents,
     objects   |-> IF InList(keyword, p.objects)
                   THEN ListRemove(p.objects, keyword) ELSE p.objects]

\* for section_name in section_names: if "header" in ...: ... elif "footer" in ...:
RECURSIVE PromoteSections(_, _)
PromoteSections(p, section_names) ==
    IF section_names = <<>> THEN p
    ELSE LET name == lower(Head(section_names))
             q == IF Contains(name, header) THEN Promote(p, header)
                  ELSE IF Contains(name, footer) THEN Promote(p, footer)
                  ELSE p
         IN  PromoteSections(q, Tail(section_names))

_process_architectural_plan(p, sects, cfg) ==
    LET canonical == [documents |-> CanonicalizeCategory(PlanGet(p, "documents")),
                      objects   |-> CanonicalizeCategory(PlanGet(p, "objects"))]
        collapsed == [canonical EXCEPT !.documents = CollapseSiteSettings(@)]
        completed == [documents |-> EnsureRequired(collapsed.documents,
                                                   cfg.required_global_docs),
                      objects   |-> EnsureRequired(collapsed.objects,
                                                   cfg.required_objects)]
        section_names == [i \in 1..Len(sects) |-> to_camel_case(sects[i])]
        promoted == PromoteSections(completed, section_names)
    IN  [documents |-> ListSort(promoted.documents),
         objects   |-> ListSort(promoted.objects)]

(***************************************************************************)
(* The inputs of the plan normalizer.                                      *)
(***************************************************************************)
DocumentNames == {raw_Page, seo, raw_site_settings, siteConfig, settings,
                  raw_team_member}
ObjectNames == {seo, settings, header, footer}
SectionNames == {raw_Hero, raw_Header, raw_Footer, raw_Header_Footer}

SeqsUpTo(S, n) == UNION {[1..k -> S] : k \in 0..n}

\* ValidationConfig: the defaults (lines 100-103) and overrides of them
Configs ==
    [required_global_docs : {<<page, siteSettings>>, <<page>>},
     required_objects     : {<<seo>>, <<seo, header>>, <<seo, footer>>}]

\* the plan dicts with these lists; an empty list may also be a missing key
PlanDicts(documents, objects) ==
    {[k \in K |-> IF k = "documents" THEN documents ELSE objects] :
        K \in {K \in SUBSET {"documents", "objects"} :
                  /\ (documents # <<>> => "documents" \in K)
                  /\ (objects # <<>> => "objects" \in K)}}

CanonIdle ==
    /\ text = <<>>
    /\ ident = <<>>
    /\ prevIdent = <<>>
    /\ canonCalls = 0

None == "None"

\* run() has not been started
PipeIdle ==
    /\ stage = "idle"
    /\ cursor = 0
    /\ responses = <<>>
    /\ all_schema_data = <<>>
    /\ corrected_schemas = <<>>
    /\ disk = <<>>
    /\ writes = <<>>

\* no function of the UI generator has been called
UiIdle ==
    /\ types_content = <<>>
    /\ all_schemas = <<>>
    /\ ai_response = <<>>
    /\ files_created = <<>>
    /\ files = <<>>
    /\ uiCalls = 0

CorrIdle ==
    /\ code = <<>>
    /\ all_valid_names = {}
    /\ expected_type = None
    /\ original_code = <<>>
    /\ corrections_applied = <<>>
    /\ pc = 0
    /\ corrCalls = 0
    /\ returned = <<>>
    /\ issues = <<>>

InitPlan ==
    /\ config \in Configs
    /\ \E nd \in 0..MaxNames : \E no \in 0..(MaxNames - nd) :
         \E documents \in [1..nd -> DocumentNames] :
           \E objects \in [1..no -> ObjectNames] :
             /\ rawPlan \in PlanDicts(documents, objects)
             /\ sections \in SeqsUpTo(SectionNames, MaxNames - nd - no)
    /\ plan = rawPlan
    /\ prevPlan = rawPlan
    /\ calls = 0
    /\ CanonIdle
    /\ CorrIdle
    /\ PipeIdle
    /\ UiIdle

\* phase_one_architect_plan hands the extracted plan to the normalizer; the
\* second call is the normalizer applied to its own result
ProcessArchitecturalPlan ==
    /\ calls < 2
    /\ plan' = _process_architectural_plan(plan, sections, config)
    /\ prevPlan' = plan
    /\ calls' = calls + 1
    /\ UNCHANGED <<config, rawPlan, sections, canonVars, corrVars, pipeVars, uiVars>>

NextPlan == ProcessArchitecturalPlan

SpecPlan == InitPlan /\ [][NextPlan]_vars

(***************************************************************************)
(* Python's re on code texts.  A code text is a sequence of tokens (a      *)
(* punctuation mark, a run of one white-space character, a quote, a        *)
(* keyword with its colon, an identifier); a pattern is a sequence of      *)
(* atoms, each a token class with a quantifier or an anchor, and is        *)
(* matched by backtracking in re's order of preference (greedy: longest    *)
(* first; lazy: shortest first).                                           *)
(***************************************************************************)
\* atoms: one token of a class, or one token not of it
One(S)      == [set |-> S, neg |-> FALSE, q |-> "1"]
NotOne(S)   == [set |-> S, neg |-> TRUE,  q |-> "1"]
Opt(S)      == [set |-> S, neg |-> FALSE, q |-> "?"]
Star(S)     == [set |-> S, neg |-> FALSE, q |-> "*"]
NotStar(S)  == [set |-> S, neg |-> TRUE,  q |-> "*"]
NotPlus(S)  == [set |-> S, neg |-> TRUE,  q |-> "+"]
NotLazy(S)  == [set |-> S, neg |-> TRUE,  q |-> "*?"]
Lit(tok)    == One({tok})
\* ^ and $ under re.MULTILINE
BOL         == [set |-> {}, neg |-> FALSE, q |-> "^"]
EOL         == [set |-> {}, neg |-> FALSE, q |-> "$"]

InClass(a, tok) == (tok \in a.set) # a.neg

\* the number of tokens from offset i on that are all in the atom's class
Least(S) == CHOOSE x \in S : \A y \in S : x <= y

\* the number of tokens from offset i on that are all in the atom's class:
\* up to the first of the others, or to the end
Run(a, s, i) ==
    LET RunUpTo(others) == IF others = {} THEN Len(s) - i ELSE Least(others) - i - 1
    IN  RunUpTo({j \in (i + 1)..Len(s) : ~InClass(a, s[j])})

\* the offsets at which atom a, started at offset i, can end, best first:
\* i+n, ..., i+least for a greedy atom, i, ..., i+n for a lazy one
AtomEnds(a, s, i) ==
    LET GreedyEnds(n, least) == [j \in 1..(n + 1 - least) |-> i + n + 1 - j]
        LazyEnds(n) == [j \in 1..(n + 1) |-> i + j - 1]
    IN
    CASE a.q = "1"  -> IF i < Len(s) /\ InClass(a, s[i + 1]) THEN <<i + 1>> ELSE <<>>
      [] a.q = "?"  -> IF i < Len(s) /\ InClass(a, s[i + 1]) THEN <<i + 1, i>> ELSE <<i>>
      [] a.q = "*"  -> GreedyEnds(Run(a, s, i), 0)
      [] a.q = "+"  -> GreedyEnds(Run(a, s, i), 1)
      [] a.q = "*?" -> LazyEnds(Run(a, s, i))
      [] a.q = "^"  -> IF i = 0 \/ s[i] = "\n" THEN <<i>> ELSE <<>>
      [] a.q = "$"  -> IF i = Len(s) \/ s[i + 1] = "\n" THEN <<i>> ELSE <<>>

\* the number of tokens up to offset e that are all in the atom's class
RunBack(a, s, e) ==
    LET RunBackFrom(others) == IF others = {} THEN e ELSE Least({e - k : k \in others})
    IN  RunBackFrom({k \in 1..e : ~InClass(a, s[k])})

\* the offsets from which atom a can end at offset e
Starts(a, s, e) ==
    CASE a.q = "1"  -> IF e >= 1 /\ InClass(a, s[e]) THEN {e - 1} ELSE {}
      [] a.q = "?"  -> IF e >= 1 /\ InClass(a, s[e]) THEN {e - 1, e} ELSE {e}
      [] a.q = "+"  -> (e - RunBack(a, s, e))..(e - 1)
      [] a.q \in {"*", "*?"} -> (e - RunBack(a, s, e))..e
      [] a.q = "^"  -> IF e = 0 \/ s[e] = "\n" THEN {e} ELSE {}
      [] a.q = "$"  -> IF e = Len(s) \/ s[e + 1] = "\n" THEN {e} ELSE {}

NoMatch == <<-1>>

\* the offsets at which atom a followed by the rest of a pattern matches,
\* put before later, where later[1] is the set of those of the rest
Extend(a, s, later) ==
    IF a.q \in {"*", "*?", "?"} /\ later[1] = 0..Len(s)
    THEN <<0..Len(s)>> \o later
    ELSE <<UNION {Starts(a, s, e) : e \in later[1]}>> \o later

\* Accepting(pat, s, j)[1] is the set of the offsets at which atoms j.. of
\* pat match, [2] that of atoms j+1.., and so on to the end of the pattern
RECURSIVE Accepting(_, _, _)
Accepting(pat, s, j) ==
    IF j > Len(pat) THEN <<0..Len(s)>>
    ELSE Extend(pat[j], s, Accepting(pat, s, j + 1))

\* offset i and then the offset after each of atoms j.. of a match, as
\* backtracking finds it: each atom ends at the first of its ends, in its
\* order of preference, from which the rest of the pattern matches
RECURSIVE Path(_, _, _, _, _)
Path(pat, s, acc, j, i) ==
    LET FirstEnd(ends, ok) == ends[Least({k \in 1..Len(ends) : ends[k] \in ok})]
    IN  IF j > Len(pat) THEN <<i>>
        ELSE <<i>> \o Path(pat, s, acc, j + 1,
                           FirstEnd(AtomEnds(pat[j], s, i), acc[j + 1]))

\* a match is <<its offset, the offset after atom 1, ..., after atom n>>
MatchEnd(m) == m[Len(m)]

\* the tokens matched by atoms a..b of a match
Group(s, m, a, b) == SubSeq(s, m[a] + 1, m[b + 1])

\* the leftmost match at offset i or later, or NoMatch
SearchWith(pat, s, acc, i) ==
    LET MatchAtFirst(starts) ==
            IF starts = {} THEN NoMatch ELSE Path(pat, s, acc, 1, Least(starts))
    IN  MatchAtFirst({j \in acc[1] : j >= i})

re_search(pat, s) == SearchWith(pat, s, Accepting(pat, s, 1), 0)
Found(pat, s) == Accepting(pat, s, 1)[1] # {}

\* a replacement template: literal tokens and groups (atoms a..b of the match)
T(toks)  == [lit |-> toks, a |-> 0, b |-> 0]
G(a, b)  == [lit |-> <<>>, a |-> a, b |-> b]

RECURSIVE Expand(_, _, _)
Expand(repl, s, m) ==
    IF repl = <<>> THEN <<>>
    ELSE (IF Head(repl).a = 0 THEN Head(repl).lit
          ELSE Group(s, m, Head(repl).a, Head(repl).b))
         \o Expand(Tail(repl), s, m)

\* re.sub(pat, repl, s): every non-overlapping match, left to right, replaced
\* (no pattern of the program matches the empty text; such a match is
\* stepped over); m is the leftmost match at offset i or later
RECURSIVE SubFrom(_, _, _, _, _, _)
SubFrom(pat, repl, s, acc, i, m) ==
    IF m = NoMatch \/ m[1] >= Len(s) THEN SubSeq(s, i + 1, Len(s))
    ELSE IF MatchEnd(m) = m[1]
         THEN SubSeq(s, i + 1, m[1] + 1)
              \o SubFrom(pat, repl, s, acc, m[1] + 1,
                         SearchWith(pat, s, acc, m[1] + 1))
         ELSE SubSeq(s, i + 1, m[1]) \o Expand(repl, s, m)
              \o SubFrom(pat, repl, s, acc, MatchEnd(m),
                         SearchWith(pat, s, acc, MatchEnd(m)))

re_sub(pat, repl, s) ==
    LET SubWith(acc) == SubFrom(pat, repl, s, acc, 0, SearchWith(pat, s, acc, 0))
    IN  SubWith(Accepting(pat, s, 1))

\* re.findall(pat, s) for a pattern with one group, atom g: what the group
\* matched in every non-overlapping match, left to right
re_findall(pat, s, g) ==
    LET RECURSIVE FindFrom(_, _)
        FindFrom(acc, m) ==
            IF m = NoMatch THEN <<>>
            ELSE <<Group(s, m, g, g)>>
                 \o FindFrom(acc, SearchWith(pat, s, acc, MatchEnd(m)))
        FindWith(acc) == FindFrom(acc, SearchWith(pat, s, acc, 0))
    IN  FindWith(Accepting(pat, s, 1))

\* re.finditer(pat, s): the non-overlapping matches, left to right
re_finditer(pat, s) ==
    LET RECURSIVE IterFrom(_, _)
        IterFrom(acc, m) ==
            IF m = NoMatch THEN <<>>
            ELSE <<m>> \o IterFrom(acc, SearchWith(pat, s, acc, MatchEnd(m)))
        IterWith(acc) == IterFrom(acc, SearchWith(pat, s, acc, 0))
    IN  IterWith(Accepting(pat, s, 1))

\* the token that stands for the three backquotes of a markdown code fence
Fence == "<fence>"

\* the spelling of every token of the model's code texts (the fence token
\* stands for three backquotes, which no pattern matches but as a whole)
Spell ==
    (Fence :> <<"<", "f", ">">>)
    @@ ("typescript" :> <<"t","y","p","e","s","c","r","i","p","t">>)
    @@ ("\n" :> <<"\n">>)
    @@ (";" :> <<";">>)
    @@ ("ts" :> <<"t","s">>)
    @@ ("import" :> <<"i","m","p","o","r","t">>)
    @@ (" " :> <<" ">>)
    @@ ("{" :> <<"{">>)
    @@ ("defineType" :> <<"d","e","f","i","n","e","T","y","p","e">>)
    @@ ("," :> <<",">>)
    @@ ("defineField" :> <<"d","e","f","i","n","e","F","i","e","l","d">>)
    @@ ("}" :> <<"}">>)
    @@ ("from" :> <<"f","r","o","m">>)
    @@ ("'" :> <<"'">>)
    @@ ("sanity" :> <<"s","a","n","i","t","y">>)
    @@ ("export" :> <<"e","x","p","o","r","t">>)
    @@ ("default" :> <<"d","e","f","a","u","l","t">>)
    @@ ("(" :> <<"(">>)
    @@ ("name:" :> <<"n","a","m","e",":">>)
    @@ ("hero" :> <<"h","e","r","o">>)
    @@ ("title:" :> <<"t","i","t","l","e",":">>)
    @@ ("Hero" :> <<"H","e","r","o">>)
    @@ ("type:" :> <<"t","y","p","e",":">>)
    @@ ("document" :> <<"d","o","c","u","m","e","n","t">>)
    @@ ("fields:" :> <<"f","i","e","l","d","s",":">>)
    @@ ("[" :> <<"[">>)
    @@ ("object" :> <<"o","b","j","e","c","t">>)
    @@ ("]" :> <<"]">>)
    @@ (")" :> <<")">>)
    @@ ("preview:" :> <<"p","r","e","v","i","e","w",":">>)
    @@ ("select:" :> <<"s","e","l","e","c","t",":">>)
    @@ ("title" :> <<"t","i","t","l","e">>)
    @@ ("Title" :> <<"T","i","t","l","e">>)
    @@ ("internationalizedArrayString" :> <<"i","n","t","e","r","n","a","t","i","o","n","a","l","i","z","e","d","A","r","r","a","y","S","t","r","i","n","g">>)
    @@ ("body" :> <<"b","o","d","y">>)
    @@ ("internationalizedArrayRichText" :> <<"i","n","t","e","r","n","a","t","i","o","n","a","l","i","z","e","d","A","r","r","a","y","R","i","c","h","T","e","x","t">>)
    @@ ("of:" :> <<"o","f",":">>)
    @@ ("block" :> <<"b","l","o","c","k">>)
    @@ ("members" :> <<"m","e","m","b","e","r","s">>)
    @@ ("array" :> <<"a","r","r","a","y">>)
    @@ ("TeamMember" :> <<"T","e","a","m","M","e","m","b","e","r">>)
    @@ ("tags" :> <<"t","a","g","s">>)
    @@ ("widget" :> <<"w","i","d","g","e","t">>)
    @@ ("cta" :> <<"c","t","a">>)
    @@ ("link" :> <<"l","i","n","k">>)
    @@ ("heroImage" :> <<"h","e","r","o","I","m","a","g","e">>)
    @@ ("internationalizedArrayImage" :> <<"i","n","t","e","r","n","a","t","i","o","n","a","l","i","z","e","d","A","r","r","a","y","I","m","a","g","e">>)
    @@ ("alt" :> <<"a","l","t">>)
    @@ ("string" :> <<"s","t","r","i","n","g">>)
    @@ ("internationalizedArrayFile" :> <<"i","n","t","e","r","n","a","t","i","o","n","a","l","i","z","e","d","A","r","r","a","y","F","i","l","e">>)
    @@ ("slug" :> <<"s","l","u","g">>)
    @@ ("\"" :> <<"\"">>)
    @@ ("internationalizedArraySlug" :> <<"i","n","t","e","r","n","a","t","i","o","n","a","l","i","z","e","d","A","r","r","a","y","S","l","u","g">>)
    @@ ("links" :> <<"l","i","n","k","s">>)
    @@ ("url" :> <<"u","r","l">>)
    @@ ("Link" :> <<"L","i","n","k">>)
    @@ ("reference" :> <<"r","e","f","e","r","e","n","c","e">>)
    @@ ("to:" :> <<"t","o",":">>)
    @@ ("page" :> <<"p","a","g","e">>)
    @@ ("primaryTitle" :> <<"p","r","i","m","a","r","y","T","i","t","l","e">>)
    @@ ("String" :> <<"S","t","r","i","n","g">>)
    @@ ("validation:" :> <<"v","a","l","i","d","a","t","i","o","n",":">>)
    @@ ("Rule:" :> <<"R","u","l","e",":">>)
    @@ ("Rule" :> <<"R","u","l","e">>)
    @@ ("=>" :> <<"=",">">>)
    @@ ("." :> <<".">>)
    @@ ("required" :> <<"r","e","q","u","i","r","e","d">>)
    @@ ("URL" :> <<"U","R","L">>)
    @@ ("Untitled" :> <<"U","n","t","i","t","l","e","d">>)
    @@ ("subtitle:" :> <<"s","u","b","t","i","t","l","e",":">>)
    @@ ("media:" :> <<"m","e","d","i","a",":">>)
    @@ ("null" :> <<"n","u","l","l">>)
    @@ ("prepare:" :> <<"p","r","e","p","a","r","e",":">>)
    @@ ("selection" :> <<"s","e","l","e","c","t","i","o","n">>)
    @@ ("return" :> <<"r","e","t","u","r","n">>)
    @@ ("||" :> <<"|","|">>)
    @@ ("subtitle" :> <<"s","u","b","t","i","t","l","e">>)
    @@ ("media" :> <<"m","e","d","i","a">>)
    @@ ("javascript" :> <<"j","a","v","a","s","c","r","i","p","t">>)
    @@ ("js" :> <<"j","s">>)
    @@ ("siteSettings" :> <<"s","i","t","e","S","e","t","t","i","n","g","s">>)
    @@ ("header" :> <<"h","e","a","d","e","r">>)
    @@ ("footer" :> <<"f","o","o","t","e","r">>)
    @@ ("seo" :> <<"s","e","o">>)
    @@ ("teamMember" :> <<"t","e","a","m","M","e","m","b","e","r">>)
    @@ ("None" :> <<"N","o","n","e">>)
    @@ ("text" :> <<"t","e","x","t">>)
    @@ ("image" :> <<"i","m","a","g","e">>)
    @@ ("file" :> <<"f","i","l","e">>)
    @@ ("number" :> <<"n","u","m","b","e","r">>)
    @@ ("boolean" :> <<"b","o","o","l","e","a","n">>)
    @@ ("date" :> <<"d","a","t","e">>)
    @@ ("datetime" :> <<"d","a","t","e","t","i","m","e">>)
    @@ ("internationalizedArray" :> <<"i","n","t","e","r","n","a","t","i","o","n","a","l","i","z","e","d","A","r","r","a","y">>)
    @@ ("internationalizedArrayOfPortableText" :> <<"i","n","t","e","r","n","a","t","i","o","n","a","l","i","z","e","d","A","r","r","a","y","O","f","P","o","r","t","a","b","l","e","T","e","x","t">>)
    @@ ("internationalizedArrayPortableText" :> <<"i","n","t","e","r","n","a","t","i","o","n","a","l","i","z","e","d","A","r","r","a","y","P","o","r","t","a","b","l","e","T","e","x","t">>)
    @@ ("internationalizedArrayBlock" :> <<"i","n","t","e","r","n","a","t","i","o","n","a","l","i","z","e","d","A","r","r","a","y","B","l","o","c","k">>)
    @@ ("internationalizedArrayContent" :> <<"i","n","t","e","r","n","a","t","i","o","n","a","l","i","z","e","d","A","r","r","a","y","C","o","n","t","e","n","t">>)
    @@ ("internationalizedArrayArray" :> <<"i","n","t","e","r","n","a","t","i","o","n","a","l","i","z","e","d","A","r","r","a","y","A","r","r","a","y">>)
    @@ ("internationalizedArrayReference" :> <<"i","n","t","e","r","n","a","t","i","o","n","a","l","i","z","e","d","A","r","r","a","y","R","e","f","e","r","e","n","c","e">>)
    @@ ("internationalizedArrayCrossDatasetReference" :> <<"i","n","t","e","r","n","a","t","i","o","n","a","l","i","z","e","d","A","r","r","a","y","C","r","o","s","s","D","a","t","a","s","e","t","R","e","f","e","r","e","n","c","e">>)
    @@ ("internationalizedArrayDocument" :> <<"i","n","t","e","r","n","a","t","i","o","n","a","l","i","z","e","d","A","r","r","a","y","D","o","c","u","m","e","n","t">>)
    @@ ("internationalizedArrayText" :> <<"i","n","t","e","r","n","a","t","i","o","n","a","l","i","z","e","d","A","r","r","a","y","T","e","x","t">>)
    @@ ("crossDatasetReference" :> <<"c","r","o","s","s","D","a","t","a","s","e","t","R","e","f","e","r","e","n","c","e">>)
    @@ ("internationalizedArrayUrl" :> <<"i","n","t","e","r","n","a","t","i","o","n","a","l","i","z","e","d","A","r","r","a","y","U","r","l">>)
    @@ ("mainTitle" :> <<"m","a","i","n","T","i","t","l","e">>)
    @@ ("headerTitle" :> <<"h","e","a","d","e","r","T","i","t","l","e">>)
    @@ ("sectionTitle" :> <<"s","e","c","t","i","o","n","T","i","t","l","e">>)
    @@ ("primaryDescription" :> <<"p","r","i","m","a","r","y","D","e","s","c","r","i","p","t","i","o","n">>)
    @@ ("mainDescription" :> <<"m","a","i","n","D","e","s","c","r","i","p","t","i","o","n">>)
    @@ ("sectionDescription" :> <<"s","e","c","t","i","o","n","D","e","s","c","r","i","p","t","i","o","n">>)
    @@ ("primaryText" :> <<"p","r","i","m","a","r","y","T","e","x","t">>)
    @@ ("mainText" :> <<"m","a","i","n","T","e","x","t">>)
    @@ ("mainImage" :> <<"m","a","i","n","I","m","a","g","e">>)
    @@ ("primaryImage" :> <<"p","r","i","m","a","r","y","I","m","a","g","e">>)
    @@ ("featuredImage" :> <<"f","e","a","t","u","r","e","d","I","m","a","g","e">>)
    @@ ("description" :> <<"d","e","s","c","r","i","p","t","i","o","n">>)

ImportStatement ==
    <<"import", " ", "{", "defineType", ",", " ", "defineField", "}", " ",
      "from", " ", "'", "sanity", "'", "\n", "\n">>

UrlObjectFields ==
    <<"fields:", " ", "[", "defineField", "(", "{", "name:", " ", "\"",
      "url", "\"", ",", " ", "title:", " ", "\"", "URL", "\"", ",", " ",
      "type:", " ", "\"", "url", "\"", ",", " ", "validation:", " ", "(",
      "Rule", ")", " ", "=>", " ", "Rule", ".", "required", "(", ")", "}",
      ")", "]", ",", "}", ",">>

PreviewBlock ==
    <<"preview:", " ", "{", "\n", " ", " ", "select:", " ", "{", "\n", " ",
      " ", " ", " ", "title:", " ", "'", "Untitled", "'", ",", "\n", " ",
      " ", " ", " ", "subtitle:", " ", "'", "Untitled", "'", ",", "\n",
      " ", " ", " ", " ", "media:", " ", "null", ",", "\n", " ", " ", "}",
      ",", "\n", " ", " ", "prepare:", " ", "(", "selection", ")", " ",
      "=>", " ", "{", "\n", " ", " ", " ", " ", "return", " ", "{", "\n",
      " ", " ", " ", " ", " ", " ", "title:", " ", "selection", ".",
      "title", " ", "||", " ", "'", "Untitled", "'", ",", "\n", " ", " ",
      " ", " ", " ", " ", "subtitle:", " ", "selection", ".", "subtitle",
      " ", "||", " ", "'", "Untitled", "'", ",", "\n", " ", " ", " ", " ",
      " ", " ", "media:", " ", "selection", ".", "media", " ", "||", " ",
      "null", ",", "\n", " ", " ", " ", " ", "}", ";", "\n", " ", " ", "}",
      ",", "\n", "}">>

\* pieces of generated code, from which the code texts given to the
\* corrector are put together
Fragment ==
    [FencePrefix |->
     <<Fence, "typescript", "\n">>,
     FenceSuffix |->
     <<"\n", Fence>>,
     StraySuffix |->
     <<";", Fence, "ts", "\n">>,
     HeaderDefineType |->
     <<"export", " ", "default", " ", "defineType", "(", "{", "name:", " ",
       "'", "hero", "'", ",", " ", "title:", " ", "'", "Hero", "'", ",",
       " ", "type:", " ", "'", "document", "'", ",", " ", "fields:", " ",
       "[">>,
     HeaderPlainObject |->
     <<"export", " ", "default", " ", "{", "name:", " ", "'", "hero", "'",
       ",", " ", "title:", " ", "'", "Hero", "'", ",", " ", "type:", " ",
       "'", "object", "'", ",", " ", "fields:", " ", "[">>,
     FooterDefineType |->
     <<"]", "}", ")">>,
     FooterPlainObject |->
     <<"]", "}">>,
     FooterPreviewDefineType |->
     <<"]", ",", " ", "preview:", " ", "{", "select:", " ", "{", "title:",
       " ", "'", "title", "'", "}", "}", "}", ")">>,
     FieldString |->
     <<"defineField", "(", "{", "name:", " ", "'", "title", "'", ",", " ",
       "title:", " ", "'", "Title", "'", ",", " ", "type:", " ", "'",
       "internationalizedArrayString", "'", "}", ")", ",">>,
     FieldRichTextOf |->
     <<"{", "name:", " ", "'", "body", "'", ",", " ", "type:", " ", "'",
       "internationalizedArrayRichText", "'", ",", " ", "of:", " ", "[",
       "{", "type:", " ", "'", "block", "'", "}", "]", "}", ",">>,
     FieldWrongCase |->
     <<"{", "name:", " ", "'", "members", "'", ",", " ", "type:", " ", "'",
       "array", "'", ",", " ", "of:", " ", "[", "{", "type:", " ", "'",
       "TeamMember", "'", "}", "]", "}", ",">>,
     FieldBareMember |->
     <<"{", "name:", " ", "'", "tags", "'", ",", " ", "type:", " ", "'",
       "array", "'", ",", " ", "of:", " ", "[", "{", "'", "widget", "'",
       "}", "]", "}", ",">>,
     FieldDefineTypeInArray |->
     <<"{", "name:", " ", "'", "cta", "'", ",", " ", "type:", " ", "'",
       "array", "'", ",", " ", "of:", " ", "[", "defineType", "(", "{",
       "type:", " ", "'", "object", "'", ",", " ", "name:", " ", "'",
       "link", "'", "}", ")", "]", "}", ",">>,
     FieldImageFields |->
     <<"{", "name:", " ", "'", "heroImage", "'", ",", " ", "type:", " ",
       "'", "internationalizedArrayImage", "'", ",", " ", "fields:", " ",
       "[", "{", "name:", " ", "'", "alt", "'", ",", " ", "type:", " ", "'",
       "string", "'", "}", "]", "}", ",">>,
     FieldImageTwoFields |->
     <<"{", "type:", " ", "'", "internationalizedArrayFile", "'", ",", " ",
       "fields:", " ", "[", "]", ",", " ", "fields:", " ", "[", "]", "}",
       ",">>,
     FieldSlugOf |->
     <<"{", "name:", " ", "'", "slug", "'", ",", " ", "type:", " ", "\"",
       "internationalizedArraySlug", "\"", ",", " ", "of:", " ", "[", "{",
       "type:", " ", "'", "string", "'", "}", "]", "}", ",">>,
     FieldMixedNamed |->
     <<"{", "name:", " ", "'", "links", "'", ",", " ", "type:", " ", "'",
       "array", "'", ",", " ", "of:", " ", "[", "{", "type:", " ", "'",
       "url", "'", ",", " ", "name:", " ", "'", "link", "'", ",", " ",
       "title:", " ", "'", "Link", "'", "}", ",", " ", "{", "type:", " ",
       "'", "reference", "'", ",", " ", "to:", " ", "[", "{", "type:", " ",
       "'", "page", "'", "}", "]", "}", "]", "}", ",">>,
     FieldMixedBare |->
     <<"{", "name:", " ", "'", "links", "'", ",", " ", "type:", " ", "'",
       "array", "'", ",", " ", "of:", " ", "[", "{", "type:", " ", "'",
       "url", "'", "}", ",", " ", "{", "type:", " ", "'", "reference", "'",
       "}", "]", "}", ",">>,
     FieldMixedReversed |->
     <<"{", "name:", " ", "'", "links", "'", ",", " ", "type:", " ", "'",
       "array", "'", ",", " ", "of:", " ", "[", "{", "type:", " ", "'",
       "reference", "'", "}", ",", " ", "{", "type:", " ", "'", "url", "'",
       "}", "]", "}", ",">>,
     FieldTypedRule |->
     <<"defineField", "(", "{", "name:", " ", "'", "primaryTitle", "'", ",",
       " ", "type:", " ", "'", "String", "'", ",", " ", "validation:", " ",
       "(", "Rule:", " ", "Rule", ")", " ", "=>", " ", "Rule", ".",
       "required", "(", ")", "}", ")", ",">>]

\* the text of a run of tokens
TextOf(toks) == JoinWords([i \in 1..Len(toks) |-> Spell[toks[i]]])

\* the tokens whose text ends with the text of token x: what a keyword of a
\* pattern matches where the pattern does not fix the characters before it
Ending(x) ==
    LET EndsWith(long, short) ==
            /\ Len(short) <= Len(long)
            /\ SubSeq(long, Len(long) - Len(short) + 1, Len(long)) = short
    IN  {t \in DOMAIN Spell : EndsWith(Spell[t], Spell[x])}

\* the tokens whose text is that of token x but for letter case: what a
\* literal matches under re.IGNORECASE
IgnoringCase(x) == {t \in DOMAIN Spell : lower(Spell[t]) = lower(Spell[x])}

\* x in code
InCode(x, c) == \E i \in 1..Len(c) : Contains(Spell[c[i]], Spell[x])

\* token classes
WS == {" ", "\n"}                       \* \s
Quote == {"'", "\""}                    \* ['"]
\* the tokens that are not made of word characters (\w)
NonWord ==
    LET IsWordChar(ch) == IsLower(ch) \/ IsUpper(ch) \/ ch = "_"
    IN  {t \in DOMAIN Spell : \E i \in 1..Len(Spell[t]) : ~IsWordChar(Spell[t][i])}

\* a rule's result: the code, and the labels appended to corrections
Result(c, l) == [code |-> c, labels |-> l]

(***************************************************************************)
(* CodeCorrector: the thirteen rules                                       *)
(***************************************************************************)
_remove_markdown_formatting(c) ==
    LET \* ^```(?:typescript|javascript|ts|js)?\s*
        markdown_open ==
            <<BOL, Lit(Fence), Opt({"typescript", "javascript", "ts", "js"}), Star(WS)>>
        \* \s*```\s*$
        markdown_close == <<Star(WS), Lit(Fence), Star(WS), EOL>>
        \* ;```\w*  and  ;```\w*\s*
        stray_search == <<Lit(";"), Lit(Fence), NotStar(NonWord)>>
        stray_sub == <<Lit(";"), Lit(Fence), NotStar(NonWord), Star(WS)>>
        \* the second step, on the result r of the first
        RemoveStray(r) ==
            IF Found(stray_search, r.code)
            THEN Result(re_sub(stray_sub, <<>>, r.code),
                        Append(r.labels, <<"removed stray markdown syntax">>))
            ELSE r
    IN  RemoveStray(
            IF c # <<>> /\ (Head(c) = Fence \/ c[Len(c)] = Fence)
            THEN Result(re_sub(markdown_close, <<>>, re_sub(markdown_open, <<>>, c)),
                        <<<<"removed markdown formatting">>>>)
            ELSE Result(c, <<>>))

type_pattern ==                \* type:\s*['"]([^'"]+)['"]
    <<One(Ending("type:")), Star(WS), One(Quote), NotPlus(Quote), One(Quote)>>

\* the rule leaving every declared kind as it is
_fix_schema_type_Skip(c, kind) == Result(c, <<>>)

_fix_schema_type(c, kind) ==
    LET \* the rule once type_pattern is found, current_type being group 1 of
        \* the first match
        Rewrite(current_type) ==
            IF current_type # <<kind>>
            THEN Result(re_sub(type_pattern, <<T(<<"type:", " ", "'", kind, "'">>)>>, c),
                        <<<<"schema type:">> \o current_type \o <<"->", kind>>>>)
            ELSE Result(c, <<>>)
    IN  IF kind # None /\ Found(type_pattern, c)
        THEN Rewrite(Group(c, re_search(type_pattern, c), 4, 4))
        ELSE Result(c, <<>>)

validation_pattern ==          \* \(Rule:\s*[A-Za-z_][A-Za-z0-9_]*\)
    <<Lit("("), Lit("Rule:"), Star(WS), NotOne(NonWord), Lit(")")>>

_fix_validation_syntax(c) ==
    IF Found(validation_pattern, c)
    THEN Result(re_sub(validation_pattern, <<T(<<"(", "Rule", ")">>)>>, c),
                <<<<"validation function syntax (Rule: Rule) -> (Rule)">>>>)
    ELSE Result(c, <<>>)

defineType_in_array_pattern == \* of:\s*\[\s*defineType\s*\(\s*\{
    <<One(Ending("of:")), Star(WS), Lit("["), Star(WS), Lit("defineType"), Star(WS),
      Lit("("), Star(WS), Lit("{")>>
_fix_define_type_in_arrays(c) ==
    IF Found(defineType_in_array_pattern, c)
    THEN Result(re_sub(\* \}\s*\)\s*,?\s*\]
                       <<Lit("}"), Star(WS), Lit(")"), Star(WS), Opt({","}), Star(WS),
                         Lit("]")>>,
                       <<T(<<"}", "]">>)>>,
                       re_sub(defineType_in_array_pattern,
                              <<T(<<"of:", " ", "[", "{">>)>>, c)),
                <<<<"defineType inside arrays -> plain objects">>>>)
    ELSE Result(c, <<>>)

missing_type_pattern ==        \* of:\s*\[\s*\{\s*['"]([^'"]+)['"]\s*\}\s*\]
    <<One(Ending("of:")), Star(WS), Lit("["), Star(WS), Lit("{"), Star(WS), One(Quote),
      NotPlus(Quote), One(Quote), Star(WS), Lit("}"), Star(WS), Lit("]")>>

\* the rule writing a fixed type name in place of the member's name
_fix_missing_type_property_Object(c) ==
    IF Found(missing_type_pattern, c)
    THEN Result(re_sub(missing_type_pattern,
                       <<T(<<"of:", " ", "[", "{", "type:", " ", "'", "object",
                             "'", "}", "]">>)>>,
                       c),
                <<<<"added missing 'type:' property in array items">>>>)
    ELSE Result(c, <<>>)

_fix_missing_type_property(c) ==
    IF Found(missing_type_pattern, c)
    THEN Result(re_sub(missing_type_pattern,
                       <<T(<<"of:", " ", "[", "{", "type:", " ", "'">>), G(8, 8),
                         T(<<"'", "}", "]">>)>>,
                       c),
                <<<<"added missing 'type:' property in array items">>>>)
    ELSE Result(c, <<>>)

\* (type:\s*['"]internationalizedArray(Image|File)['"][^}]*?),\s*fields:\s*\[[^\]]*?\]
i18n_image_fields_pattern ==
    <<One(Ending("type:")), Star(WS), One(Quote),
      One({"internationalizedArrayImage", "internationalizedArrayFile"}),
      One(Quote), NotLazy({"}"}),
      Lit(","), Star(WS), Lit("fields:"), Star(WS), Lit("["), NotLazy({"]"}), Lit("]")>>

_fix_i18n_fields_property(c) ==
    IF Found(i18n_image_fields_pattern, c)
    THEN Result(re_sub(i18n_image_fields_pattern, <<G(1, 6)>>, c),
                <<<<"removed 'fields' from internationalizedArray type">>>>)
    ELSE Result(c, <<>>)

\* (type:\s*['"]internationalizedArray(?:Text|String|Url|Slug)['"][^}]*?),\s*of:\s*\[[^\]]*?\]
i18n_array_of_pattern ==
    <<One(Ending("type:")), Star(WS), One(Quote),
      One({"internationalizedArrayText", "internationalizedArrayString",
           "internationalizedArrayUrl", "internationalizedArraySlug"}),
      One(Quote), NotLazy({"}"}),
      Lit(","), Star(WS), Lit("of:"), Star(WS), Lit("["), NotLazy({"]"}), Lit("]")>>

_fix_i18n_of_property(c) ==
    IF Found(i18n_array_of_pattern, c)
    THEN Result(re_sub(i18n_array_of_pattern, <<G(1, 6)>>, c),
                <<<<"removed 'of' from internationalizedArray type">>>>)
    ELSE Result(c, <<>>)

\* ValidationConfig.built_in_types
built_in_types ==
    {"string", "text", "image", "file", "url", "slug", "number", "boolean",
     "array", "object", "reference", "block", "date", "datetime"}

\* type:\s*(['"])([^'"]+)\1 , for the quote character q of group 1
type_reference_pattern(q) ==
    <<One(Ending("type:")), Star(WS), Lit(q), NotPlus(Quote), Lit(q)>>

\* name_map[type_name.lower()], as the set of the valid names with that key
\* (the valid names of the model differ in more than letter case)
NameMap(type_name, names) ==
    {n \in names : lower(Spell[n]) = lower(TextOf(type_name))}

IsExempt(type_name) ==
    \/ \E b \in built_in_types : TextOf(type_name) = Spell[b]
    \/ Contains(TextOf(type_name), Spell["internationalizedArray"])

\* replace_type_reference: tells whether the match is rewritten
NeedsCasingFix(type_name, names) ==
    /\ ~IsExempt(type_name)
    /\ NameMap(type_name, names) # {}
    /\ type_name # <<CHOOSE n \in NameMap(type_name, names) : TRUE>>

CorrectName(type_name, names) == CHOOSE n \in NameMap(type_name, names) : TRUE

\* replace_type_reference on match m, put after the code before it and
\* before the result of the rest
ReplaceTypeReference(before, quote_char, type_name, whole, names, rest) ==
    IF NeedsCasingFix(type_name, names)
    THEN [code  |-> before \o quote_char \o <<CorrectName(type_name, names)>>
                       \o quote_char \o rest.code,
          fixed |-> <<type_name>> \o rest.fixed]
    ELSE [code |-> before \o whole \o rest.code, fixed |-> rest.fixed]

\* the leftmost match of type_pattern at offset i or later; acc1 and acc2 are
\* the accepting offsets of the pattern for each of the two quote characters
CasingSearch(s, acc1, acc2, i) ==
    LET Leftmost(m1, m2) ==
            IF m1 = NoMatch THEN m2
            ELSE IF m2 = NoMatch \/ m1[1] < m2[1] THEN m1 ELSE m2
    IN  Leftmost(SearchWith(type_reference_pattern("'"), s, acc1, i),
                 SearchWith(type_reference_pattern("\""), s, acc2, i))

\* re.sub(type_pattern, replace_type_reference, code): the code, and the
\* type names rewritten (type_corrections), in order; m is the leftmost
\* match at offset i or later
RECURSIVE CasingFrom(_, _, _, _, _, _)
CasingFrom(s, acc1, acc2, i, m, names) ==
    IF m = NoMatch THEN [code |-> SubSeq(s, i + 1, Len(s)), fixed |-> <<>>]
    ELSE ReplaceTypeReference(
             SubSeq(s, i + 1, m[1]), Group(s, m, 3, 3), Group(s, m, 4, 4),
             Group(s, m, 1, 5), names,
             CasingFrom(s, acc1, acc2, MatchEnd(m),
                        CasingSearch(s, acc1, acc2, MatchEnd(m)), names))

\* the entries of the label: the type names rewritten, each with its
\* correct name
RECURSIVE CasingLabel(_, _)
CasingLabel(type_names, names) ==
    IF type_names = <<>> THEN <<>>
    ELSE Head(type_names) \o <<"->", CorrectName(Head(type_names), names)>>
         \o CasingLabel(Tail(type_names), names)

_fix_type_name_casing(c, names) ==
    LET CasingWith(acc1, acc2) ==
            CasingFrom(c, acc1, acc2, 0, CasingSearch(c, acc1, acc2, 0), names)
        TextLess(a, b) == StrLess(TextOf(a), TextOf(b))
        \* sorted(list(set(type_corrections)))
        Label(r, type_corrections) ==
            IF type_corrections # <<>>
            THEN Result(r.code, <<<<"type name casing:">>
                                     \o CasingLabel(type_corrections, names)>>)
            ELSE Result(r.code, <<>>)
        Record(r) == Label(r, SortSeq(SetToList(Range(r.fixed)), TextLess))
    IN  Record(CasingWith(Accepting(type_reference_pattern("'"), c, 1),
                          Accepting(type_reference_pattern("\""), c, 1)))

_ensure_imports(c) ==
    IF /\ ~InCode("defineType", c) /\ ~InCode("defineField", c)
       /\ InCode("name:", c) /\ InCode("title:", c) /\ InCode("type:", c)
    THEN Result(ImportStatement \o c,
                <<<<"added missing defineType/defineField import">>>>)
    ELSE Result(c, <<>>)

invalid_i18n_types ==
    << <<"internationalizedArrayOfPortableText", "internationalizedArrayText">>,
       <<"internationalizedArrayPortableText", "internationalizedArrayText">>,
       <<"internationalizedArrayRichText", "internationalizedArrayText">>,
       <<"internationalizedArrayBlock", "internationalizedArrayText">>,
       <<"internationalizedArrayContent", "internationalizedArrayText">>,
       <<"internationalizedArrayArray", "internationalizedArrayText">>,
       <<"internationalizedArrayReference", "reference">>,
       <<"internationalizedArrayCrossDatasetReference", "crossDatasetReference">>,
       <<"internationalizedArrayDocument", "reference">> >>

\* code.replace(incorrect_name, correct_name); no token of the model holds
\* an incorrect name as a proper part
StrReplace(c, incorrect_name, correct_name) ==
    [i \in 1..Len(c) |->
        IF c[i] = incorrect_name THEN correct_name ELSE c[i]]

RECURSIVE FixInvalidFrom(_, _)
FixInvalidFrom(c, n) ==
    LET \* fixed_types with one more entry in front
        WithFixed(rest, incorrect_name, correct_name) ==
            [rest EXCEPT !.fixed = <<incorrect_name, "->", correct_name>> \o @]
    IN  IF n > Len(invalid_i18n_types) THEN [code |-> c, fixed |-> <<>>]
        ELSE IF InCode(invalid_i18n_types[n][1], c)
             THEN WithFixed(
                      FixInvalidFrom(StrReplace(c, invalid_i18n_types[n][1],
                                                invalid_i18n_types[n][2]), n + 1),
                      invalid_i18n_types[n][1], invalid_i18n_types[n][2])
             ELSE FixInvalidFrom(c, n + 1)

\* ', '.join(shown[:n]) and '...' when more were found; each entry is k tokens
Shortened(entries, n, k) ==
    IF Len(entries) > n * k THEN Append(SubSeq(entries, 1, n * k), "...") ELSE entries

_fix_invalid_i18n_types(c) ==
    LET Label(r) ==
            IF r.fixed # <<>>
            THEN Result(r.code, <<<<"corrected invalid i18n types:">>
                                     \o Shortened(r.fixed, 2, 3)>>)
            ELSE Result(r.code, <<>>)
    IN  Label(FixInvalidFrom(c, 1))

verbose_replacements ==
    << <<"primaryTitle", "title">>, <<"mainTitle", "title">>,
       <<"headerTitle", "title">>, <<"sectionTitle", "title">>,
       <<"primaryDescription", "description">>, <<"mainDescription", "description">>,
       <<"sectionDescription", "description">>,
       <<"primaryText", "text">>, <<"mainText", "text">>,
       <<"heroImage", "image">>, <<"mainImage", "image">>,
       <<"primaryImage", "image">>, <<"featuredImage", "image">> >>

\* name:\s*['"]<verbose>['"]  under re.IGNORECASE
verbose_pattern(verbose) ==
    <<One(IgnoringCase("name:")), Star(WS), One(Quote), One(IgnoringCase(verbose)),
      One(Quote)>>

verbose_patterns ==
    [n \in 1..Len(verbose_replacements) |-> verbose_pattern(verbose_replacements[n][1])]

RECURSIVE SimplifyFrom(_, _)
SimplifyFrom(c, n) ==
    LET \* simplified_names with one more entry in front: pattern.split("'")[1],
        \* the pattern's text between its first two apostrophes
        WithSimplified(rest, verbose) ==
            [rest EXCEPT !.simplified = <<"\\\"]", verbose, "[">> \o @]
    IN  IF n > Len(verbose_replacements) THEN [code |-> c, simplified |-> <<>>]
        ELSE IF Found(verbose_patterns[n], c)
             THEN WithSimplified(
                      SimplifyFrom(
                          re_sub(verbose_patterns[n],
                                 <<T(<<"name:", " ", "'", verbose_replacements[n][2],
                                       "'">>)>>,
                                 c),
                          n + 1),
                      verbose_replacements[n][1])
             ELSE SimplifyFrom(c, n + 1)

_simplify_verbose_names(c) ==
    LET Label(r) ==
            IF r.simplified # <<>>
            THEN Result(r.code, <<<<"simplified verbose field names:">>
                                     \o Shortened(r.simplified, 3, 3)>>)
            ELSE Result(r.code, <<>>)
    IN  Label(SimplifyFrom(c, 1))

\* of:\s*\[\s*\{[^}]*type:\s*['"]url['"][^}]*\}[^}]*\{[^}]*type:\s*['"]reference['"]
mixed_array_pattern ==
    <<One(Ending("of:")), Star(WS), Lit("["), Star(WS), Lit("{"), NotStar({"}"}),
      One(Ending("type:")), Star(WS), One(Quote), Lit("url"), One(Quote), NotStar({"}"}),
      Lit("}"), NotStar({"}"}), Lit("{"), NotStar({"}"}),
      One(Ending("type:")), Star(WS), One(Quote), Lit("reference"), One(Quote)>>

\* (\s*\{\s*type:\s*['"])url(['"][^}]*name:\s*['"]([^'"]+)['"][^}]*
\*     title:\s*['"]([^'"]+)['"][^}]*)\},
url_object_fix ==
    <<Star(WS), Lit("{"), Star(WS), Lit("type:"), Star(WS), One(Quote),
      Lit("url"),
      One(Quote), NotStar({"}"}), One(Ending("name:")), Star(WS), One(Quote), NotPlus(Quote),
      One(Quote), NotStar({"}"}), One(Ending("title:")), Star(WS), One(Quote), NotPlus(Quote),
      One(Quote), NotStar({"}"}),
      Lit("}"), Lit(",")>>

_fix_mixed_array_types(c) ==
    IF Found(mixed_array_pattern, c)
    THEN Result(re_sub(url_object_fix,
                       <<G(1, 6), T(<<"object">>), G(8, 21), T(UrlObjectFields)>>,
                       c),
                <<<<"fixed mixed primitive/object types in arrays">>>>)
    ELSE Result(c, <<>>)

preview_pattern ==             \* preview:\s*\{
    <<One(Ending("preview:")), Star(WS), Lit("{")>>

_add_missing_preview(c, kind) ==
    IF kind \in {"siteSettings", "header", "footer"}
       /\ ~Found(preview_pattern, c)
    THEN Result(PreviewBlock,
                <<<<"added missing preview configuration for singleton">>>>)
    ELSE Result(c, <<>>)

NumRules == 13

\* the rules with the first two in the other order
ApplyRule_Swapped(rule, c, names, kind) ==
    CASE rule = 1  -> _fix_schema_type(c, kind)
      [] rule = 2  -> _remove_markdown_formatting(c)
      [] rule = 3  -> _fix_validation_syntax(c)
      [] rule = 4  -> _fix_define_type_in_arrays(c)
      [] rule = 5  -> _fix_missing_type_property(c)
      [] rule = 6  -> _fix_i18n_fields_property(c)
      [] rule = 7  -> _fix_i18n_of_property(c)
      [] rule = 8  -> _fix_type_name_casing(c, names)
      [] rule = 9  -> _ensure_imports(c)
      [] rule = 10 -> _fix_invalid_i18n_types(c)
      [] rule = 11 -> _simplify_verbose_names(c)
      [] rule = 12 -> _fix_mixed_array_types(c)
      [] rule = 13 -> _add_missing_preview(c, kind)

\* the rules in the order correct_generated_code calls them
ApplyRule(rule, c, names, kind) ==
    CASE rule = 1  -> _remove_markdown_formatting(c)
      [] rule = 2  -> _fix_schema_type(c, kind)
      [] rule = 3  -> _fix_validation_syntax(c)
      [] rule = 4  -> _fix_define_type_in_arrays(c)
      [] rule = 5  -> _fix_missing_type_property(c)
      [] rule = 6  -> _fix_i18n_fields_property(c)
      [] rule = 7  -> _fix_i18n_of_property(c)
      [] rule = 8  -> _fix_type_name_casing(c, names)
      [] rule = 9  -> _ensure_imports(c)
      [] rule = 10 -> _fix_invalid_i18n_types(c)
      [] rule = 11 -> _simplify_verbose_names(c)
      [] rule = 12 -> _fix_mixed_array_types(c)
      [] rule = 13 -> _add_missing_preview(c, kind)

(***************************************************************************)
(* CodeValidator: the thirteen checks.  A diagnostic is a tuple of strings *)
(* that begins with its severity: "error" stands for the cross mark and    *)
(* "warning" for the warning sign that the message begins with.            *)
(***************************************************************************)
max_fields_per_schema == 6

\* the patterns that the checks search for
check_pattern ==
    LET Containing(x) == {t \in DOMAIN Spell : Contains(Spell[t], Spell[x])}
        StartsWith(long, short) ==
            Len(short) <= Len(long) /\ SubSeq(long, 1, Len(short)) = short
        \* [a-z]*<word>[A-Z][a-z]*  with the word at offset i of the spelling
        Matches(sp, i, word) ==
            /\ i + Len(word) + 1 <= Len(sp)
            /\ \A k \in 1..i : IsLower(sp[k])
            /\ SubSeq(sp, i + 1, i + Len(word)) = word
            /\ IsUpper(sp[i + Len(word) + 1])
            /\ \A k \in (i + Len(word) + 2)..Len(sp) : IsLower(sp[k])
        Mixed(first, second) ==
            <<One(Ending("of:")), Star(WS), Lit("["), Star(WS), Lit("{"),
              NotStar({"}"}), One(Ending("type:")), Star(WS), One(Quote),
              One(first), One(Quote),
              NotStar({"}"}), Lit("}"), NotStar({"}"}), Lit("{"), NotStar({"}"}),
              One(Ending("type:")), Star(WS), One(Quote),
              One(second), One(Quote)>>
    IN  [\* of:\s*\[\s*defineType\s*\(
         define_type_in_arrays |-> SubSeq(defineType_in_array_pattern, 1, 7),
         \* of:\s*\[\s*\{\s*['"][^'"]+['"]\s*\}
         missing_type_property |-> SubSeq(missing_type_pattern, 1, 11),
         \* type:\s*['"]internationalizedArray(Image|File)['"].*?fields:\s*\[
         i18n_fields_property |->
             <<One(Ending("type:")), Star(WS), One(Quote),
               One({"internationalizedArrayImage", "internationalizedArrayFile"}),
               One(Quote), NotLazy({}), One(Ending("fields:")), Star(WS),
               Lit("[")>>,
         \* type:\s*['"]internationalizedArray(?:Text|String|Url|Slug)['"].*?of:\s*\[
         i18n_of_property |->
             <<One(Ending("type:")), Star(WS), One(Quote),
               One({"internationalizedArrayText", "internationalizedArrayString",
                    "internationalizedArrayUrl", "internationalizedArraySlug"}),
               One(Quote), NotLazy({}), One(Ending("of:")), Star(WS), Lit("[")>>,
         \* type:\s*['"]internationalizedArray(?:OfPortableText|PortableText|
         \*     RichText|Block|Content|Array|Of\w+)['"]
         invalid_i18n_pattern |->
             <<One(Ending("type:")), Star(WS), One(Quote),
               One({t \in DOMAIN Spell :
                      \/ t \in {"internationalizedArrayOfPortableText",
                                "internationalizedArrayPortableText",
                                "internationalizedArrayRichText",
                                "internationalizedArrayBlock",
                                "internationalizedArrayContent",
                                "internationalizedArrayArray"}
                      \/ /\ StartsWith(Spell[t], Spell["internationalizedArray"]
                                                    \o <<"O", "f">>)
                         /\ Len(Spell[t]) > Len(Spell["internationalizedArray"]) + 2}),
               One(Quote)>>,
         \* type:\s*['"]internationalizedArray(?:Reference|CrossDatasetReference|
         \*     Document)['"]
         invalid_ref_pattern |->
             <<One(Ending("type:")), Star(WS), One(Quote),
               One({"internationalizedArrayReference",
                    "internationalizedArrayCrossDatasetReference",
                    "internationalizedArrayDocument"}),
               One(Quote)>>,
         \* \(Rule:\s*[A-Za-z]
         validation_syntax |->
             <<Lit("("), Lit("Rule:"), Star(WS),
               One({t \in DOMAIN Spell :
                      IsLower(Spell[t][1]) \/ IsUpper(Spell[t][1])})>>,
         \* import.*defineType.*from.*sanity
         missing_imports |->
             <<One(Containing("import")), NotStar({"\n"}),
               One(Containing("defineType")), NotStar({"\n"}),
               One(Containing("from")), NotStar({"\n"}),
               One(Containing("sanity"))>>,
         \* defineField\s*\(
         field_count |-> <<One(Ending("defineField")), Star(WS), Lit("(")>>,
         \* name:\s*['"][a-z]*<Word>[A-Z][a-z]*['"]  for the words Title,
         \* Description, Text and Image
         verbose_patterns |->
             <<One(Ending("name:")), Star(WS), One(Quote),
               One({t \in DOMAIN Spell :
                      \E word \in {<<"T","i","t","l","e">>,
                                   <<"D","e","s","c","r","i","p","t","i","o","n">>,
                                   <<"T","e","x","t">>, <<"I","m","a","g","e">>} :
                          \E i \in 0..Len(Spell[t]) : Matches(Spell[t], i, word)}),
               One(Quote)>>,
         \* of:\s*\[\s*\{[^}]*type:\s*['"](?:url|string|number|boolean)['"][^}]*\}
         \*     [^}]*\{[^}]*type:\s*['"](?:reference|object)['"]
         mixed_array_pattern |->
             Mixed({"url", "string", "number", "boolean"}, {"reference", "object"})]

_check_i18n_of_property(c) ==
    IF Found(check_pattern.i18n_of_property, c)
    THEN << <<"error", "Found 'of' property on internationalizedArray type">> >>
    ELSE <<>>

_check_missing_imports(c) ==
    IF (InCode("defineType", c) \/ InCode("defineField", c))
       /\ ~Found(check_pattern.missing_imports, c)
    THEN << <<"warning", "Missing import for defineType/defineField">> >>
    ELSE <<>>

_check_mixed_array_types(c) ==
    IF Found(check_pattern.mixed_array_pattern, c)
    THEN << <<"error", "Found mixed primitive/object types in array - will break Sanity Studio">> >>
    ELSE <<>>

\* the checks in the order validate_generated_code calls them; the issues
\* of each are appended to those of the checks before it
validate_generated_code(c, schema_name) ==
    LET Issue(found, severity, message) ==
            IF found THEN << <<severity, message>> >> ELSE <<>>
        \* one issue for each quoted type that begins with a capital and is
        \* neither a localized nor a built-in type
        NotCamel(type_ref) ==
            /\ IsUpper(TextOf(type_ref)[1])
            /\ ~Contains(TextOf(type_ref), Spell["internationalizedArray"])
            /\ ~\E b \in built_in_types : TextOf(type_ref) = Spell[b]
        CamelIssues(type_refs) ==
            [i \in 1..Len(type_refs) |->
                <<"warning", "Type reference">> \o type_refs[i]
                    \o <<"should be camelCase">>]
        \* len(re.findall(r"defineField\s*\(", code))
        FieldCountIssue(field_count) ==
            IF field_count > max_fields_per_schema
            THEN << <<"warning", "Schema has", field_count,
                      "fields - consider simplifying">> >>
            ELSE <<>>
    IN  \* _check_markdown_formatting: ```\w* found, or the code starts or
        \* ends with ```
        Issue(InCode(Fence, c), "error",
              "Found markdown formatting in TypeScript code")
        \* _check_define_type_in_arrays
        \o Issue(Found(check_pattern.define_type_in_arrays, c), "error",
                 "Found defineType inside array 'of' property")
        \* _check_missing_type_property
        \o Issue(Found(check_pattern.missing_type_property, c), "error",
                 "Found missing 'type:' property in array items")
        \* _check_i18n_fields_property
        \o Issue(Found(check_pattern.i18n_fields_property, c), "error",
                 "Found 'fields' property on internationalizedArray type")
        \o _check_i18n_of_property(c)
        \* _check_invalid_i18n_types
        \o Issue(Found(check_pattern.invalid_i18n_pattern, c), "error",
                 "Found invalid internationalizedArray type (only String, Text, Image, File, Url, Slug are available)")
        \o Issue(Found(check_pattern.invalid_ref_pattern, c), "error",
                 "Found invalid internationalizedArray reference type (use 'reference' instead)")
        \* _check_validation_syntax
        \o Issue(Found(check_pattern.validation_syntax, c), "error",
                 "Found explicit typing in validation function parameter")
        \o _check_missing_imports(c)
        \* _check_camel_case_violations
        \o CamelIssues(SelectSeq(re_findall(type_pattern, c, 4), NotCamel))
        \* _check_field_count
        \o FieldCountIssue(Len(re_findall(check_pattern.field_count, c, 1)))
        \* _check_verbose_field_names
        \o Issue(Found(check_pattern.verbose_patterns, c), "warning",
                 "Found verbose field names - consider simpler naming (e.g., 'title', 'description', 'image')")
        \o _check_mixed_array_types(c)
        \* _check_missing_preview: "preview:" not in code
        \o Issue(~InCode("preview:", c), "warning",
                 <<"Missing preview configuration for", schema_name,
                   "Every schema MUST include a preview object.">>)

(***************************************************************************)
(* The name canonicalizer applied to a text, and to its own result.        *)
(***************************************************************************)
CanonAlphabet == {"a", "B", " ", "_"}

PlanIdle ==
    /\ config = [required_global_docs |-> <<page, siteSettings>>,
                 required_objects |-> <<seo>>]
    /\ rawPlan = [documents |-> <<>>, objects |-> <<>>]
    /\ sections = <<>>
    /\ plan = rawPlan
    /\ prevPlan = rawPlan
    /\ calls = 0

InitCanon ==
    /\ text \in SeqsUpTo(CanonAlphabet, MaxTextLen)
    /\ ident = text
    /\ prevIdent = text
    /\ canonCalls = 0
    /\ PlanIdle
    /\ CorrIdle
    /\ PipeIdle
    /\ UiIdle

ToCamelCase ==
    /\ canonCalls < 2
    /\ ident' = to_camel_case(ident)
    /\ prevIdent' = ident
    /\ canonCalls' = canonCalls + 1
    /\ UNCHANGED <<text, planVars, corrVars, pipeVars, uiVars>>

NextCanon == ToCamelCase

SpecCanon == InitCanon /\ [][NextCanon]_vars

(***************************************************************************)
(* The code corrector applied to a generated code text, and to its own     *)
(* result.  A call runs the thirteen rules one after the other; pc is the  *)
(* rule it is about to run.                                                *)
(***************************************************************************)
MaxFields == 1
MaxCorrCalls == 2
MaxValCalls == 2

\* what surrounds the fields of a generated schema
Envelopes ==
    {[before |-> ImportStatement \o Fragment.HeaderDefineType,
      after  |-> Fragment.FooterDefineType],
     [before |-> Fragment.FencePrefix \o Fragment.HeaderDefineType,
      after  |-> Fragment.FooterDefineType \o Fragment.FenceSuffix],
     [before |-> Fragment.HeaderDefineType,
      after  |-> Fragment.FooterPreviewDefineType \o Fragment.StraySuffix],
     [before |-> Fragment.HeaderPlainObject,
      after  |-> Fragment.FooterPlainObject],
     [before |-> <<"export", " ", "default", " ", "hero">>, after |-> <<>>],
     [before |-> <<>>, after |-> <<>>]}

FieldPool ==
    <<Fragment.FieldString, Fragment.FieldRichTextOf, Fragment.FieldWrongCase,
      Fragment.FieldBareMember, Fragment.FieldDefineTypeInArray,
      Fragment.FieldImageFields, Fragment.FieldImageTwoFields,
      Fragment.FieldSlugOf, Fragment.FieldMixedNamed, Fragment.FieldMixedBare,
      Fragment.FieldMixedReversed, Fragment.FieldTypedRule>>

\* the choices of at most n fields of the pool, in the pool's order
FieldChoices(n) ==
    {ix \in SeqsUpTo(1..Len(FieldPool), n) :
        \A i \in 1..(Len(ix) - 1) : ix[i] < ix[i + 1]}

RECURSIVE FieldsText(_)
FieldsText(ix) ==
    IF ix = <<>> THEN <<>> ELSE FieldPool[Head(ix)] \o FieldsText(Tail(ix))

CodeTexts ==
    {e.before \o FieldsText(ix) \o e.after :
        e \in Envelopes, ix \in FieldChoices(MaxFields)}

ValidNameSets == {{"page", "seo", "teamMember", "hero", "String"}}
ExpectedTypes == {None, "document", "object", "siteSettings"}
SchemaNames == {"hero", "siteSettings"}

CorrectorInputs ==
    /\ code \in CodeTexts
    /\ all_valid_names \in ValidNameSets
    /\ expected_type \in ExpectedTypes
    /\ original_code = <<>>
    /\ corrections_applied = <<>>
    /\ corrCalls = 0
    /\ returned = <<>>
    /\ issues = <<>>
    /\ PlanIdle
    /\ CanonIdle
    /\ PipeIdle
    /\ UiIdle

InitCorrector ==
    /\ CorrectorInputs
    /\ pc = 0

\* correct_generated_code is called on the code: the first time on the
\* generated code, then on the code the call before returned
Call ==
    /\ pc = 0
    /\ corrCalls < MaxCorrCalls
    /\ original_code' = code
    /\ corrections_applied' = <<>>
    /\ pc' = 1
    /\ issues' = <<>>
    /\ UNCHANGED <<code, all_valid_names, expected_type, corrCalls, returned,
                   planVars, canonVars, pipeVars, uiVars>>

\* the next rule rewrites the code and appends its labels
RunRule ==
    /\ pc \in 1..NumRules
    /\ \E r \in {ApplyRule(pc, code, all_valid_names, expected_type)} :
           /\ code' = r.code
           /\ corrections_applied' = corrections_applied \o r.labels
    /\ pc' = pc + 1
    /\ UNCHANGED <<all_valid_names, expected_type, original_code, corrCalls,
                   returned, issues, planVars, canonVars, pipeVars, uiVars>>

Return ==
    /\ pc = NumRules + 1
    /\ returned' = Append(returned, code)
    /\ corrCalls' = corrCalls + 1
    /\ pc' = 0
    /\ UNCHANGED <<code, all_valid_names, expected_type, original_code,
                   corrections_applied, issues, planVars, canonVars, pipeVars, uiVars>>

NextCorrector == Call \/ RunRule \/ Return

SpecCorrector == InitCorrector /\ [][NextCorrector]_vars

(***************************************************************************)
(* The code validator applied to a generated code text, and to the code    *)
(* that the corrector returns for it, as _correct_and_validate_schemas     *)
(* applies it.                                                             *)
(***************************************************************************)
\* the one correct_generated_code call made for a generated code
Correct ==
    /\ corrCalls = 0
    /\ Call

\* a validator that keeps its list of issues from one call to the next
Validate_KeepingIssues ==
    /\ pc = 0
    /\ Len(issues) < MaxValCalls
    /\ \E schema_name \in IF issues = <<>> THEN SchemaNames
                           ELSE {issues[1].schema_name} :
           issues' = Append(issues,
                            [schema_name |-> schema_name,
                             issues |->
                                 (IF issues = <<>> THEN <<>>
                                  ELSE issues[Len(issues)].issues)
                                 \o validate_generated_code(code, schema_name)])
    /\ UNCHANGED <<code, all_valid_names, expected_type, original_code,
                   corrections_applied, pc, corrCalls, returned, planVars,
                   canonVars, pipeVars, uiVars>>

\* validate_generated_code is called on the code for a schema name, and
\* called again with the same arguments; it returns its issues
Validate ==
    /\ pc = 0
    /\ Len(issues) < MaxValCalls
    /\ \E schema_name \in IF issues = <<>> THEN SchemaNames
                           ELSE {issues[1].schema_name} :
           issues' = Append(issues,
                            [schema_name |-> schema_name,
                             issues |-> validate_generated_code(code, schema_name)])
    /\ UNCHANGED <<code, all_valid_names, expected_type, original_code,
                   corrections_applied, pc, corrCalls, returned, planVars,
                   canonVars, pipeVars, uiVars>>

NextValidator == Correct \/ RunRule \/ Return \/ Validate

SpecValidator == InitCorrector /\ [][NextValidator]_vars

(***************************************************************************)
(* One rule of the corrector applied to a code text, and to its own        *)
(* result; pc is the rule, corrections_applied the labels its latest       *)
(* application recorded.                                                   *)
(***************************************************************************)
InitRule ==
    /\ CorrectorInputs
    /\ pc \in 1..NumRules

ApplyRuleAgain ==
    /\ corrCalls < MaxCorrCalls
    /\ \E r \in {ApplyRule(pc, code, all_valid_names, expected_type)} :
           /\ code' = r.code
           /\ corrections_applied' = r.labels
           /\ returned' = Append(returned, r.code)
    /\ corrCalls' = corrCalls + 1
    /\ UNCHANGED <<all_valid_names, expected_type, original_code, pc, issues,
                   planVars, canonVars, pipeVars, uiVars>>

NextRule == ApplyRuleAgain

SpecRule == InitRule /\ [][NextRule]_vars

(***************************************************************************)
(* SchemaArchitect.run: the main execution flow.  The sections and the     *)
(* plan that the AI returned are inputs; each planned schema is generated, *)
(* the generated ones are corrected and validated, and the file generator  *)
(* writes them and the index.                                              *)
(***************************************************************************)
\* TextProcessor.to_kebab_case: a hyphen between a lower-case letter and the
\* upper-case letter after it, each run of hyphens and blanks made one
\* hyphen, the hyphens at the ends stripped, lower-cased
to_kebab_case(s) ==
    LET Hyphenated(t) ==
            JoinWords([i \in 1..Len(t) |->
                IF i > 1 /\ IsLower(t[i - 1]) /\ IsUpper(t[i])
                THEN <<"-", t[i]>> ELSE <<t[i]>>])
        Collapsed(t) ==
            JoinWords([i \in 1..Len(t) |->
                IF t[i] \notin {"-", " "} THEN <<t[i]>>
                ELSE IF i = 1 \/ t[i - 1] \notin {"-", " "} THEN <<"-">>
                ELSE <<>>])
        Stripped(t) ==
            SubSeq(t, IF t # <<>> /\ t[1] = "-" THEN 2 ELSE 1,
                      IF Len(t) > 1 /\ t[Len(t)] = "-" THEN Len(t) - 1 ELSE Len(t))
    IN  lower(Stripped(Collapsed(Hyphenated(s))))

\* the token of the code texts that spells the name
TokenOf(name) == CHOOSE t \in DOMAIN Spell : Spell[t] = name

\* the content of a file: the code of a schema file, or the imports and the
\* exported names of the index file
FileContent(c, imports, names) == [code |-> c, imports |-> imports, names |-> names]

\* schemas_dir / folder / file_name
SchemaPath(schema) ==
    [folder |-> IF schema.type = "document" THEN "documents" ELSE "objects",
     file   |-> to_kebab_case(schema.name) \o <<".", "t", "s">>]

IndexPath == [folder |-> "schemas", file |-> <<"i", "n", "d", "e", "x", ".", "t", "s">>]
StructurePath == [folder |-> "project", file |-> <<"s", "t", "r", "u", "c", "t", "u", "r", "e", ".", "t", "s">>]
ConfigPath == [folder |-> "project", file |-> <<"s", "a", "n", "i", "t", "y", ".", "c", "o", "n", "f", "i", "g", ".", "t", "s">>]

\* the paths under schemas_dir
InSchemasDir(path) == path.folder \in {"schemas", "documents", "objects"}

\* path.write_text(content)
WriteText(tree, path, content) ==
    [q \in DOMAIN tree \cup {path} |-> IF q = path THEN content ELSE tree[q]]

\* shutil.rmtree(schemas_dir)
RmTree(tree) ==
    [q \in {r \in DOMAIN tree : ~InSchemasDir(r)} |-> tree[q]]

\* _generate_all_schemas: the documents of the plan, then its objects
AllPlannedSchemas(p) ==
    [i \in 1..(Len(p.documents) + Len(p.objects)) |->
        IF i <= Len(p.documents)
        THEN [name |-> p.documents[i], type |-> "document"]
        ELSE [name |-> p.objects[i - Len(p.documents)], type |-> "object"]]

\* FileGenerator._generate_index_file: one import per name of the sorted
\* names, from the folder of the first schema of that name, and the sorted
\* names as the exported list
IndexContent(schemas) ==
    LET all_schema_names == [i \in 1..Len(schemas) |-> schemas[i].name]
        sorted_names == ListSort(all_schema_names)
        schema_info(name) ==
            schemas[CHOOSE i \in 1..Len(schemas) :
                            /\ schemas[i].name = name
                            /\ \A j \in 1..(i - 1) : schemas[j].name # name]
        Import(name) ==
            [name   |-> name,
             folder |-> IF schema_info(name).type = "document"
                        THEN "documents" ELSE "objects",
             file   |-> to_kebab_case(name)]
    IN  FileContent(<<>>, [i \in 1..Len(sorted_names) |-> Import(sorted_names[i])],
                    sorted_names)

\* what generate_content returns for a schema: an exception, an empty text,
\* or a code text
AIResponses ==
    {[raised |-> TRUE, text |-> <<>>],
     [raised |-> FALSE, text |-> <<>>],
     [raised |-> FALSE,
      text |-> ImportStatement \o Fragment.HeaderDefineType
                   \o Fragment.FieldString \o Fragment.FooterPreviewDefineType],
     [raised |-> FALSE,
      text |-> Fragment.FencePrefix \o Fragment.HeaderDefineType
                   \o Fragment.FieldRichTextOf \o Fragment.FooterDefineType
                   \o Fragment.FenceSuffix]}

\* the plans extracted from the AI's answer; the empty dict also stands for
\* no plan (None) and for a failed request
ExtractedPlans ==
    {[k \in {} |-> <<>>],
     [documents |-> <<>>, objects |-> <<>>],
     [documents |-> <<seo>>]}

\* the project before the run: nothing, or the files of an earlier run
Disks ==
    {[q \in {} |-> <<>>],
     [q \in {[folder |-> "documents", file |-> <<"o", "l", "d", ".", "t", "s">>],
             IndexPath, ConfigPath} |-> FileContent(<<"stale">>, <<>>, <<>>)]}

InitPipeline ==
    /\ config = [required_global_docs |-> <<page, siteSettings>>,
                 required_objects |-> <<seo>>]
    /\ sections \in {<<>>, <<raw_Hero>>}
    /\ rawPlan \in ExtractedPlans
    /\ plan = rawPlan
    /\ prevPlan = rawPlan
    /\ calls = 0
    /\ CanonIdle
    /\ CorrIdle
    /\ stage = "get_sections"
    /\ cursor = 0
    /\ responses = <<>>
    /\ all_schema_data = <<>>
    /\ corrected_schemas = <<>>
    /\ disk \in Disks
    /\ writes = <<>>
    /\ UiIdle

\* run, lines 1535-1540: the sections of the Figma page; none ends the run
GetPageSections ==
    /\ stage = "get_sections"
    /\ stage' = IF sections = <<>> THEN "exit" ELSE "phase_one"
    /\ UNCHANGED <<cursor, responses, all_schema_data, corrected_schemas, disk,
                   writes, planVars, canonVars, corrVars, uiVars>>

\* run, lines 1543-1548: phase one returns the normalized plan, or None when
\* no plan was extracted
PhaseOneArchitectPlan ==
    /\ stage = "phase_one"
    /\ IF DOMAIN rawPlan = {}
       THEN /\ stage' = "exit"
            /\ UNCHANGED <<plan, prevPlan, calls, cursor>>
       ELSE /\ plan' = _process_architectural_plan(rawPlan, sections, config)
            /\ prevPlan' = rawPlan
            /\ calls' = calls + 1
            /\ stage' = "generate"
            /\ cursor' = 1
    /\ UNCHANGED <<config, rawPlan, sections, responses, all_schema_data,
                   corrected_schemas, disk, writes, canonVars, corrVars, uiVars>>

\* a plausible slip: the loop stops at the first schema whose generation
\* failed
GenerateSchema_Break ==
    /\ stage = "generate"
    /\ cursor <= Len(AllPlannedSchemas(plan))
    /\ \E response \in AIResponses :
         \E schema_info \in {AllPlannedSchemas(plan)[cursor]} :
           /\ responses' = Append(responses,
                  [name |-> schema_info.name, type |-> schema_info.type,
                   raised |-> response.raised, text |-> response.text])
           /\ all_schema_data' =
                  IF ~response.raised /\ response.text # <<>>
                  THEN Append(all_schema_data,
                              [name |-> schema_info.name, type |-> schema_info.type,
                               code |-> response.text])
                  ELSE all_schema_data
           /\ cursor' = IF ~response.raised /\ response.text # <<>>
                        THEN cursor + 1
                        ELSE Len(AllPlannedSchemas(plan)) + 1
    /\ UNCHANGED <<stage, corrected_schemas, disk, writes, planVars, canonVars,
                   corrVars, uiVars>>

\* _generate_all_schemas, one turn of the loop: the schema is kept when
\* phase two returned a code text
GenerateSchema ==
    /\ stage = "generate"
    /\ cursor <= Len(AllPlannedSchemas(plan))
    /\ \E response \in AIResponses :
         \E schema_info \in {AllPlannedSchemas(plan)[cursor]} :
           /\ responses' = Append(responses,
                  [name |-> schema_info.name, type |-> schema_info.type,
                   raised |-> response.raised, text |-> response.text])
           /\ all_schema_data' =
                  IF ~response.raised /\ response.text # <<>>
                  THEN Append(all_schema_data,
                              [name |-> schema_info.name, type |-> schema_info.type,
                               code |-> response.text])
                  ELSE all_schema_data
    /\ cursor' = cursor + 1
    /\ UNCHANGED <<stage, corrected_schemas, disk, writes, planVars, canonVars,
                   corrVars, uiVars>>

\* a plausible slip: the run goes on with no generated schema
GenerationDone_NoCheck ==
    /\ stage = "generate"
    /\ cursor > Len(AllPlannedSchemas(plan))
    /\ stage' = "correct" /\ cursor' = 1
    /\ UNCHANGED <<responses, all_schema_data, corrected_schemas, disk, writes,
                   planVars, canonVars, corrVars, uiVars>>

\* run, lines 1559-1564: no generated schema ends the run
GenerationDone ==
    /\ stage = "generate"
    /\ cursor > Len(AllPlannedSchemas(plan))
    /\ IF all_schema_data = <<>>
       THEN stage' = "exit" /\ UNCHANGED cursor
       ELSE stage' = "correct" /\ cursor' = 1
    /\ UNCHANGED <<responses, all_schema_data, corrected_schemas, disk, writes,
                   planVars, canonVars, corrVars, uiVars>>

\* _correct_and_validate_schemas, lines 1620-1622: the corrector is called
\* on the generated code of the next schema
CorrectSchema ==
    /\ stage = "correct"
    /\ pc = 0
    /\ cursor <= Len(all_schema_data)
    /\ Len(returned) < cursor
    /\ code' = all_schema_data[cursor].code
    /\ original_code' = all_schema_data[cursor].code
    /\ all_valid_names' = {TokenOf(name) : name \in Range(plan.documents)
                                                     \cup Range(plan.objects)}
    /\ expected_type' = all_schema_data[cursor].type
    /\ corrections_applied' = <<>>
    /\ pc' = 1
    /\ UNCHANGED <<corrCalls, returned, issues, planVars, canonVars, pipeVars, uiVars>>

\* a plausible slip: the validator is given the generated code
ValidateSchema_Raw ==
    /\ stage = "correct"
    /\ pc = 0
    /\ cursor <= Len(all_schema_data)
    /\ Len(returned) = cursor
    /\ \E corrected_code \in {returned[cursor]} :
         /\ issues' = Append(issues,
                [schema_name |-> TokenOf(all_schema_data[cursor].name),
                 code |-> all_schema_data[cursor].code,
                 issues |-> validate_generated_code(all_schema_data[cursor].code,
                                TokenOf(all_schema_data[cursor].name))])
         /\ corrected_schemas' =
                Append(corrected_schemas,
                       [all_schema_data[cursor] EXCEPT !.code = corrected_code])
    /\ cursor' = cursor + 1
    /\ UNCHANGED <<stage, responses, all_schema_data, disk, writes, code,
                   all_valid_names, expected_type, original_code,
                   corrections_applied, pc, corrCalls, returned, planVars,
                   canonVars, uiVars>>

\* _correct_and_validate_schemas, lines 1625-1629: the validator is called
\* on the corrected code, and the schema is kept with the corrected code
ValidateSchema ==
    /\ stage = "correct"
    /\ pc = 0
    /\ cursor <= Len(all_schema_data)
    /\ Len(returned) = cursor
    /\ \E corrected_code \in {returned[cursor]} :
         /\ issues' = Append(issues,
                [schema_name |-> TokenOf(all_schema_data[cursor].name),
                 code |-> corrected_code,
                 issues |-> validate_generated_code(corrected_code,
                                TokenOf(all_schema_data[cursor].name))])
         /\ corrected_schemas' =
                Append(corrected_schemas,
                       [all_schema_data[cursor] EXCEPT !.code = corrected_code])
    /\ cursor' = cursor + 1
    /\ UNCHANGED <<stage, responses, all_schema_data, disk, writes, code,
                   all_valid_names, expected_type, original_code,
                   corrections_applied, pc, corrCalls, returned, planVars,
                   canonVars, uiVars>>

\* generate_all_files, lines 1467-1471: the schemas directory is removed and
\* made again
CleanDirectories ==
    /\ stage = "correct"
    /\ pc = 0
    /\ cursor > Len(all_schema_data)
    /\ disk' = RmTree(disk)
    /\ stage' = "files"
    /\ cursor' = 1
    /\ UNCHANGED <<responses, all_schema_data, corrected_schemas, writes,
                   planVars, canonVars, corrVars, uiVars>>

\* a plausible slip: a schema on which the validator reported a blocking
\* issue is not written
WriteSchemaFile_UnlessBlocked ==
    /\ stage = "files"
    /\ cursor <= Len(corrected_schemas)
    /\ \E schema_data \in {corrected_schemas[cursor]} :
         IF \E j \in 1..Len(issues[cursor].issues) :
                issues[cursor].issues[j][1] = "error"
         THEN UNCHANGED <<disk, writes>>
         ELSE /\ disk' = WriteText(disk, SchemaPath(schema_data),
                                   FileContent(schema_data.code, <<>>, <<>>))
              /\ writes' = Append(writes,
                     [path |-> SchemaPath(schema_data), content |-> schema_data.code,
                      name |-> schema_data.name, type |-> schema_data.type])
    /\ cursor' = cursor + 1
    /\ UNCHANGED <<stage, responses, all_schema_data, corrected_schemas,
                   planVars, canonVars, corrVars, uiVars>>

\* generate_all_files, lines 1475-1485: the file of the next schema
WriteSchemaFile ==
    /\ stage = "files"
    /\ cursor <= Len(corrected_schemas)
    /\ \E schema_data \in {corrected_schemas[cursor]} :
         /\ disk' = WriteText(disk, SchemaPath(schema_data),
                              FileContent(schema_data.code, <<>>, <<>>))
         /\ writes' = Append(writes,
                [path |-> SchemaPath(schema_data), content |-> schema_data.code,
                 name |-> schema_data.name, type |-> schema_data.type])
    /\ cursor' = cursor + 1
    /\ UNCHANGED <<stage, responses, all_schema_data, corrected_schemas,
                   planVars, canonVars, corrVars, uiVars>>

\* generate_all_files, line 1488: the index file
GenerateIndexFile ==
    /\ stage = "files"
    /\ cursor > Len(corrected_schemas)
    /\ disk' = WriteText(disk, IndexPath, IndexContent(corrected_schemas))
    /\ stage' = "extras"
    /\ UNCHANGED <<cursor, responses, all_schema_data, corrected_schemas, writes,
                   planVars, canonVars, corrVars, uiVars>>

\* run, lines 1575-1576: structure.ts is written when the plan has a global
\* document, and sanity.config.ts when it exists and is not configured yet
GenerateExtras ==
    /\ stage = "extras"
    /\ \E global_docs \in {SelectSeq(plan.documents,
                               LAMBDA doc : doc \in {siteSettings, header, footer})} :
         \E structured \in
              {IF global_docs # <<>>
               THEN WriteText(disk, StructurePath,
                              FileContent(<<"structure">>, <<>>, global_docs))
               ELSE disk} :
           disk' = IF ConfigPath \in DOMAIN structured
                      /\ structured[ConfigPath].code # <<"configured">>
                   THEN WriteText(structured, ConfigPath,
                                  FileContent(<<"configured">>, <<>>, <<>>))
                   ELSE structured
    /\ stage' = "done"
    /\ UNCHANGED <<cursor, responses, all_schema_data, corrected_schemas, writes,
                   planVars, canonVars, corrVars, uiVars>>

NextPipeline ==
    \/ GetPageSections
    \/ PhaseOneArchitectPlan
    \/ GenerateSchema
    \/ GenerationDone
    \/ CorrectSchema
    \/ RunRule
    \/ Return
    \/ ValidateSchema
    \/ CleanDirectories
    \/ WriteSchemaFile
    \/ GenerateIndexFile
    \/ GenerateExtras

SpecPipeline == InitPipeline /\ [][NextPipeline]_vars

(***************************************************************************)
(* The UI generator (src/ui-generator.py).  Its texts are sequences of     *)
(* tokens too: a word, a punctuation mark, one white-space character, the  *)
(* fence.  A name of several words is several tokens (SanityImageAsset is  *)
(* Sanity, ImageAsset), so that str.startswith is a test of the first one. *)
(***************************************************************************)
\* the tokens of the UI generator's texts that are not made of word
\* characters (\w)
UiNonWord ==
    {" ", "\n", "=", "{", "}", ";", ":", "?", "&", "|", "'", "/", "//", ".",
     "(", ")", Fence}

\* needle in text, for a needle that is one token
InText(needle, s) == \E i \in 1..Len(s) : s[i] = needle

\* str.strip()
Strip(s) ==
    LET Inner(kept) ==
            IF kept = {} THEN <<>>
            ELSE SubSeq(s, Least(kept), Least(kept) + Cardinality(kept) - 1)
    IN  Inner({i \in 1..Len(s) :
                  /\ \E j \in 1..i : s[j] \notin WS
                  /\ \E j \in i..Len(s) : s[j] \notin WS})

\* export\s+type\s+([\w\d_]+)\s*=\s*({[\s\S]*?})\s*(?:&|\||\s)*;
schema_pattern ==
    <<Lit("export"), One(WS), Star(WS), Lit("type"), One(WS), Star(WS),
      NotPlus(UiNonWord), Star(WS), Lit("="), Star(WS),
      Lit("{"), NotLazy({}), Lit("}"), Star(WS), Star({"&", "|", " ", "\n"}),
      Lit(";")>>

\* (\w+)\??:\s*([^;]+);
field_pattern ==
    <<NotPlus(UiNonWord), Opt({"?"}), Lit(":"), Star(WS), NotPlus({";"}),
      Lit(";")>>

\* the loop of get_all_sanity_schemas_as_json over the declarations that
\* schema_pattern finds in the text; a later declaration of a name replaces
\* an earlier one
get_all_sanity_schemas_as_json(content) ==
    LET StartsWith(name, prefix) == name # <<>> /\ name[1] = prefix
        \* not A and B and not C and "_id" in type_body or "_type" in type_body
        Included(type_name, type_body) ==
            \/ /\ ~StartsWith(type_name, "Sanity")
               /\ type_name # <<"CrossDatasetReference">>
               /\ ~StartsWith(type_name, "InternationalizedArray")
               /\ InText("_id", type_body)
            \/ InText("_type", type_body)
        Field(body, fm) ==
            [name |-> Group(body, fm, 1, 1),
             type |-> Strip(Group(body, fm, 5, 5)),
             optional |-> InText("?", Group(body, fm, 1, 6))]
        \* not (field_name.startswith("_") and field_name not in [...])
        Kept(field) ==
            ~(/\ field.name[1] \in {"_id", "_createdAt", "_type", "_key"}
              /\ field.name \notin {<<"_type">>, <<"_key">>})
        FieldsOf(body, found) ==
            SelectSeq([i \in 1..Len(found) |-> Field(body, found[i])], Kept)
        Entry(type_body) ==
            [fields |-> FieldsOf(type_body, re_finditer(field_pattern, type_body)),
             is_document |-> InText("_id", type_body)
                                 /\ InText("_createdAt", type_body)]
        Last(name, matches) ==
            CHOOSE i \in 1..Len(matches) :
                /\ Group(content, matches[i], 7, 7) = name
                /\ \A j \in (i + 1)..Len(matches) :
                       Group(content, matches[j], 7, 7) # name
        Build(matches) ==
            [name \in {Group(content, matches[i], 7, 7) : i \in 1..Len(matches)}
                |-> Entry(Group(content, matches[Last(name, matches)], 11, 13))]
        Selected(found) ==
            SelectSeq(found, LAMBDA m : Included(Group(content, m, 7, 7),
                                                 Group(content, m, 11, 13)))
    IN  Build(Selected(re_finditer(schema_pattern, content)))

\* the bound of SpecSchemas: declarations in one sanity.types.ts
MaxTypes == 2

\* the declarations of sanity.types.ts: each name with each body
TypeDeclarations ==
    LET Names == {<<"Hero">>, <<"Sanity", "ImageAsset">>,
                  <<"InternationalizedArray", "StringValue">>,
                  <<"CrossDatasetReference">>}
        Id == <<"\n", " ", "_id", ":", " ", "string", ";">>
        CreatedAt == <<"\n", " ", "_createdAt", ":", " ", "string", ";">>
        Type == <<"\n", " ", "_type", ":", " ", "'", "hero", "'", ";">>
        Title == <<"\n", " ", "title", "?", ":", " ", "string", ";">>
        Bodies == {Id \o CreatedAt \o Type \o Title, Type \o Title,
                   Id \o Title, Title}
    IN  {<<"export", " ", "type", " ">> \o name \o <<" ", "=", " ", "{">>
             \o body \o <<"\n", "}", ";", "\n">> :
         name \in Names, body \in Bodies}

TypesContents ==
    {JoinWords(declarations) :
        declarations \in SeqsUpTo(TypeDeclarations, MaxTypes) \ {<<>>}}

InitSchemas ==
    /\ types_content \in TypesContents
    /\ all_schemas = <<>>
    /\ ai_response = <<>>
    /\ files_created = <<>>
    /\ files = <<>>
    /\ uiCalls = 0
    /\ PlanIdle
    /\ CanonIdle
    /\ CorrIdle
    /\ PipeIdle

\* get_all_sanity_schemas_as_json reads sanity.types.ts and builds the map;
\* with an empty map it prints an error and exits instead of returning
GetAllSanitySchemasAsJson ==
    /\ uiCalls = 0
    /\ all_schemas' = get_all_sanity_schemas_as_json(types_content)
    /\ uiCalls' = 1
    /\ UNCHANGED <<types_content, ai_response, files_created, files, planVars,
                   canonVars, corrVars, pipeVars>>

NextSchemas == GetAllSanitySchemasAsJson

SpecSchemas == InitSchemas /\ [][NextSchemas]_vars

(***************************************************************************)
(* manual_parse_fallback: the AI's answer read line by line.               *)
(***************************************************************************)
\* str.split("\n")
SplitLines(s) ==
    LET Breaks == {i \in 1..Len(s) : s[i] = "\n"}
        \* the offset of the k-th line break; 0 before the first line and
        \* Len(s) + 1 after the last
        Break(k) ==
            IF k = 0 THEN 0
            ELSE IF k > Cardinality(Breaks) THEN Len(s) + 1
            ELSE CHOOSE i \in Breaks : Cardinality({j \in Breaks : j < i}) = k - 1
    IN  [k \in 1..(Cardinality(Breaks) + 1) |->
            SubSeq(s, Break(k - 1) + 1, Break(k) - 1)]

\* "\n".join(lines)
RECURSIVE JoinLines(_)
JoinLines(lines) ==
    IF lines = <<>> THEN <<>>
    ELSE IF Len(lines) = 1 THEN lines[1]
    ELSE lines[1] \o <<"\n">> \o JoinLines(Tail(lines))

\* line.split("FILEPATH:", 1)[1].strip()
PathOf(line) ==
    Strip(SubSeq(line, Least({i \in 1..Len(line) : line[i] = "FILEPATH:"}) + 1,
                 Len(line)))

\* line.strip().startswith("```")
IsFenceLine(line) == Strip(line) # <<>> /\ Strip(line)[1] = Fence

\* a plausible slip: a FILEPATH line starts a file inside a fence too
manual_parse_fallback_AnyLine(response_text) ==
    LET \* "Save previous file if exists" and "Save the last file"
        Saved(st) ==
            IF st.current_filepath # <<>> /\ st.current_content # <<>>
               /\ Strip(JoinLines(st.current_content)) # <<>>
            THEN Append(st.files, <<st.current_filepath,
                                    Strip(JoinLines(st.current_content))>>)
            ELSE st.files
        \* the body of the loop, for one line
        Step(st, line) ==
            IF InText("FILEPATH:", line)
            THEN [st EXCEPT !.files = Saved(st),
                            !.current_filepath = PathOf(line),
                            !.current_content = <<>>]
            ELSE IF IsFenceLine(line)
            THEN [st EXCEPT !.in_code_block = ~@]
            ELSE IF st.in_code_block /\ st.current_filepath # <<>>
            THEN [st EXCEPT !.current_content = Append(@, line)]
            ELSE st
        RECURSIVE Loop(_, _, _)
        Loop(lines, i, st) ==
            IF i > Len(lines) THEN Saved(st)
            ELSE Loop(lines, i + 1, Step(st, lines[i]))
    IN  Loop(SplitLines(response_text), 1,
             [files |-> <<>>, current_filepath |-> <<>>, current_content |-> <<>>,
              in_code_block |-> FALSE])

manual_parse_fallback(response_text) ==
    LET \* "Save previous file if exists" and "Save the last file"
        Saved(st) ==
            IF st.current_filepath # <<>> /\ st.current_content # <<>>
               /\ Strip(JoinLines(st.current_content)) # <<>>
            THEN Append(st.files, <<st.current_filepath,
                                    Strip(JoinLines(st.current_content))>>)
            ELSE st.files
        \* the body of the loop, for one line
        Step(st, line) ==
            IF InText("FILEPATH:", line) /\ ~st.in_code_block
            THEN [st EXCEPT !.files = Saved(st),
                            !.current_filepath = PathOf(line),
                            !.current_content = <<>>]
            ELSE IF IsFenceLine(line)
            THEN [st EXCEPT !.in_code_block = ~@]
            ELSE IF st.in_code_block /\ st.current_filepath # <<>>
            THEN [st EXCEPT !.current_content = Append(@, line)]
            ELSE st
        RECURSIVE Loop(_, _, _)
        Loop(lines, i, st) ==
            IF i > Len(lines) THEN Saved(st)
            ELSE Loop(lines, i + 1, Step(st, lines[i]))
    IN  Loop(SplitLines(response_text), 1,
             [files |-> <<>>, current_filepath |-> <<>>, current_content |-> <<>>,
              in_code_block |-> FALSE])

\* the bound of SpecFallback: lines in one answer
MaxLines == 5

\* the lines of the answers given to manual_parse_fallback
ResponseLines ==
    {<<"//", " ", "FILEPATH:", " ", "src", "/", "Hero.tsx">>,
     <<"FILEPATH:", " ", "page.tsx">>,
     <<"FILEPATH:">>,
     <<Fence, "tsx">>,
     <<"export", " ", "default", " ", "Hero">>,
     <<" ", " ", "return", " ", "null">>,
     <<>>}

AIResponseTexts ==
    {JoinLines(lines) : lines \in SeqsUpTo(ResponseLines, MaxLines) \ {<<>>}}

InitFallback ==
    /\ ai_response \in AIResponseTexts
    /\ types_content = <<>>
    /\ all_schemas = <<>>
    /\ files_created = <<>>
    /\ files = <<>>
    /\ uiCalls = 0
    /\ PlanIdle
    /\ CanonIdle
    /\ CorrIdle
    /\ PipeIdle

\* manual_parse_fallback is called on the answer
ManualParseFallback ==
    /\ uiCalls = 0
    /\ files' = manual_parse_fallback(ai_response)
    /\ uiCalls' = 1
    /\ UNCHANGED <<types_content, all_schemas, ai_response, files_created,
                   planVars, canonVars, corrVars, pipeVars>>

NextFallback == ManualParseFallback

SpecFallback == InitFallback /\ [][NextFallback]_vars

(***************************************************************************)
(* parse_and_create_files: the files named in the AI's answer are written. *)
(***************************************************************************)
\* the tokens of an answer that are not made of word characters (\w)
ParseNonWord ==
    UiNonWord \cup {"FILEPATH:", "Hero.tsx", "page.tsx", "query.ts", "types.ts"}

\* (?:typescript|tsx|ts|javascript|jsx|js)
Languages == {"typescript", "tsx", "ts", "javascript", "jsx", "js"}

\* the four patterns, in the order in which they are tried; path and content
\* are the atoms of the two groups
file_patterns ==
    <<\* //\s*FILEPATH:\s*([^\n]+)\n```(?:\w+)?\n([\s\S]*?)\n```
      [atoms |-> <<Lit("//"), Star(WS), Lit("FILEPATH:"), Star(WS),
                   NotPlus({"\n"}), Lit("\n"), Lit(Fence),
                   NotStar(ParseNonWord), Lit("\n"), NotLazy({}), Lit("\n"),
                   Lit(Fence)>>,
       path |-> 5, content |-> 10],
      \* FILEPATH:\s*([^\n]+)\n```(?:\w+)?\n([\s\S]*?)\n```
      [atoms |-> <<Lit("FILEPATH:"), Star(WS), NotPlus({"\n"}), Lit("\n"),
                   Lit(Fence), NotStar(ParseNonWord), Lit("\n"), NotLazy({}),
                   Lit("\n"), Lit(Fence)>>,
       path |-> 3, content |-> 8],
      \* //\s*FILEPATH:\s*([^\n]+)\n```(?:typescript|...|js)\n([\s\S]*?)\n```
      [atoms |-> <<Lit("//"), Star(WS), Lit("FILEPATH:"), Star(WS),
                   NotPlus({"\n"}), Lit("\n"), Lit(Fence), One(Languages),
                   Lit("\n"), NotLazy({}), Lit("\n"), Lit(Fence)>>,
       path |-> 5, content |-> 10],
      \* //\s*FILEPATH\s*:\s*([^\n]+)\s*\n\s*```\w*\s*\n([\s\S]*?)\n\s*```
      [atoms |-> <<Lit("//"), Star(WS), Lit("FILEPATH:"), Star(WS),
                   NotPlus({"\n"}), Star(WS), Lit("\n"), Star(WS), Lit(Fence),
                   NotStar(ParseNonWord), Star(WS), Lit("\n"), NotLazy({}),
                   Lit("\n"), Star(WS), Lit(Fence)>>,
       path |-> 5, content |-> 13]>>

\* list(pattern.finditer(response_text)), each match as the pair of its
\* group(1) and group(2)
MatchesOf(pattern, response_text) ==
    LET Pairs(ms) ==
            [k \in 1..Len(ms) |->
                <<Group(response_text, ms[k], pattern.path, pattern.path),
                  Group(response_text, ms[k], pattern.content, pattern.content)>>]
    IN  Pairs(re_finditer(pattern.atoms, response_text))

\* the matches of the first of patterns i.. that finds any
RECURSIVE TryPatterns(_, _)
TryPatterns(i, response_text) ==
    LET OrNext(matches) ==
            IF matches # <<>> THEN matches ELSE TryPatterns(i + 1, response_text)
    IN  IF i > Len(file_patterns) THEN <<>>
        ELSE OrNext(MatchesOf(file_patterns[i], response_text))

\* filepath.split("/")[-1] if "/" in filepath else filepath
FileName(filepath) ==
    LET Slashes == {i \in 1..Len(filepath) : filepath[i] \in {"/", "//"}}
    IN  IF Slashes = {} THEN filepath
        ELSE SubSeq(filepath,
                    Len(filepath) + 2 - Least({Len(filepath) + 1 - i : i \in Slashes}),
                    Len(filepath))

\* page_dir / filename for page.tsx, component_dir / filename for the others
FilePath(filename) ==
    [folder |-> IF filename = <<"page.tsx">> THEN "page_dir" ELSE "component_dir",
     file |-> filename]

\* the loop over the matches: each file is written, a later match of a file
\* name over an earlier one; files_created maps the names to the paths.  The
\* checks of query.ts and page.tsx only print warnings.
parse_and_create_files(tree, matches) ==
    LET NameOf(k) == FileName(Strip(matches[k][1]))
        Names == {NameOf(k) : k \in 1..Len(matches)}
        Paths == {FilePath(name) : name \in Names}
        LastOf(path) ==
            CHOOSE k \in 1..Len(matches) :
                /\ FilePath(NameOf(k)) = path
                /\ \A j \in (k + 1)..Len(matches) : FilePath(NameOf(j)) # path
    IN  [files_created |-> [name \in Names |-> FilePath(name)],
         disk |-> [q \in DOMAIN tree \cup Paths |->
                      IF q \in Paths THEN Strip(matches[LastOf(q)][2])
                      ELSE tree[q]]]

\* the bound of SpecParse: blocks in one answer
MaxBlocks == 2

\* the FILEPATH lines, the opening fences and the contents of the blocks
BlockHeaders ==
    {<<"//", " ", "FILEPATH:", " ", "src", "/", "Hero.tsx">>,
     <<"//", " ", "FILEPATH:", " ", "src", "/", "app", "/", "page.tsx">>,
     <<"//", " ", "FILEPATH:", " ", " ", "types.ts", " ">>,
     <<"FILEPATH:", " ", "query.ts">>}

BlockFences == {<<Fence, "tsx">>, <<Fence>>, <<Fence, "tsx", " ">>}

BlockContents ==
    {<<<<"export", " ", "default", " ", "Hero">>>>,
     <<<<" ", " ", "return", " ", "null">>, <<>>>>,
     <<>>}

\* a FILEPATH line, immediately followed by a fenced code block
Block(filepath_line, fence_line, lines, closed) ==
    JoinLines(<<filepath_line, fence_line>> \o lines
              \o (IF closed THEN <<<<Fence>>>> ELSE <<>>))

ResponseBlocks ==
    {[header |-> h, fence |-> f, content |-> c, closed |-> z] :
        h \in BlockHeaders, f \in BlockFences, c \in BlockContents,
        z \in BOOLEAN}

\* the answer made of these blocks, with blank lines between them
ResponseOf(blocks, blank) ==
    JoinLines([k \in 1..(2 * Len(blocks) - 1) |->
                  IF k % 2 = 1
                  THEN Block(blocks[(k + 1) \div 2].header,
                             blocks[(k + 1) \div 2].fence,
                             blocks[(k + 1) \div 2].content,
                             blocks[(k + 1) \div 2].closed)
                  ELSE IF blank THEN <<"\n">> ELSE <<>>])

InitParse ==
    /\ \E blocks \in SeqsUpTo(ResponseBlocks, MaxBlocks) \ {<<>>} :
          \E blank \in BOOLEAN : ai_response = ResponseOf(blocks, blank)
    /\ types_content = <<>>
    /\ all_schemas = <<>>
    /\ files_created = <<>>
    /\ files = <<>>
    /\ uiCalls = 0
    /\ PlanIdle
    /\ CanonIdle
    /\ CorrIdle
    /\ PipeIdle

\* parse_and_create_files is called on the answer: the files of the matches
\* of the first pattern that finds any, or else those of the manual parsing,
\* are written; with no file at all it prints an error and exits
ParseAndCreateFiles ==
    /\ uiCalls = 0
    /\ \E found \in {TryPatterns(1, ai_response)} :
          \E manual_files \in {IF found = <<>>
                               THEN manual_parse_fallback(ai_response)
                               ELSE <<>>} :
             \E r \in {parse_and_create_files(
                           disk, IF found = <<>> THEN manual_files ELSE found)} :
                /\ files' = manual_files
                /\ files_created' = r.files_created
                /\ disk' = r.disk
    /\ uiCalls' = 1
    /\ UNCHANGED <<types_content, all_schemas, ai_response, stage, cursor,
                   responses, all_schema_data, corrected_schemas, writes,
                   planVars, canonVars, corrVars>>

NextParse == ParseAndCreateFiles

SpecParse == InitParse /\ [][NextParse]_vars

(***************************************************************************)
(* Properties of the plan normalizer (SpecPlan).                           *)
(***************************************************************************)
Normalized == calls >= 1

Count(s, x) == Cardinality({i \in 1..Len(s) : s[i] = x})

StrictlyIncreasing(s) == \A i \in 1..(Len(s) - 1) : StrLess(s[i], s[i + 1])

\* the canonicalized name of a section contains the keyword, case-insensitively
SectionHas(section, keyword) == Contains(lower(to_camel_case(section)), keyword)

\* C1: a normalized plan has no identifier in both documents and objects.
C1_Disjoint ==
    Normalized => Range(plan.documents) \cap Range(plan.objects) = {}

\* C2: after normalization every required_global_docs name is in documents
\* and every required_objects name is in objects.
C2_RequiredInOwnList ==
    Normalized =>
        /\ \A d \in Range(config.required_global_docs) : InList(d, plan.documents)
        /\ \A o \in Range(config.required_objects) : InList(o, plan.objects)

\* C2, amended: after normalization every required_global_docs name is in
\* documents, and every required_objects name is in objects, unless it is
\* header or footer and a section with that keyword is observed: then it is
\* in objects or in documents.
C2_RequiredPresent ==
    Normalized =>
        /\ \A d \in Range(config.required_global_docs) : InList(d, plan.documents)
        /\ \A o \in Range(config.required_objects) :
              \/ InList(o, plan.objects)
              \/ /\ o \in {header, footer}
                 /\ \E i \in 1..Len(sections) : SectionHas(sections[i], o)
                 /\ InList(o, plan.documents)

\* a required object named header was promoted out of objects
C2_Witness ==
    /\ calls = 1
    /\ InList(header, config.required_objects)
    /\ InList(raw_Header, sections)
    /\ InList(header, plan.documents)
    /\ ~InList(header, plan.objects)
    /\ InList(seo, plan.objects)

RawDocuments == PlanGet(rawPlan, "documents")
RawObjects == PlanGet(rawPlan, "objects")

\* C3: if a raw document name matches a siteSettings synonym
\* case-insensitively, the normalized documents hold exactly one siteSettings
\* and no other entry that matches a synonym.
C3_SingletonCollapse ==
    (calls = 1 /\ \E n \in Range(RawDocuments) : IsSiteSettingsVariant(n)) =>
        /\ Count(plan.documents, siteSettings) = 1
        /\ \A n \in Range(plan.documents) :
              IsSiteSettingsVariant(n) => n = siteSettings

\* two synonyms and a spaced spelling were collapsed into one siteSettings
C3_Witness ==
    /\ calls = 1
    /\ {siteConfig, settings, raw_site_settings} \subseteq Range(RawDocuments)
    /\ Count(plan.documents, siteSettings) = 1
    /\ config.required_global_docs = <<page>>

\* C4: if a raw document or a raw object name matches a siteSettings synonym,
\* then after normalization no object matches a synonym and siteSettings is
\* in documents.
C4_CollapseBothLists ==
    (calls = 1 /\ \E n \in Range(RawDocuments) \cup Range(RawObjects) :
                      IsSiteSettingsVariant(n)) =>
        /\ \A n \in Range(plan.objects) : ~IsSiteSettingsVariant(n)
        /\ InList(siteSettings, plan.documents)

\* C5: for every section and every keyword (header, footer) its canonicalized
\* name contains, the keyword is in documents and not in objects.
C5_PromotionEveryKeyword ==
    calls = 1 =>
        \A i \in 1..Len(sections) : \A keyword \in {header, footer} :
            SectionHas(sections[i], keyword) =>
                /\ InList(keyword, plan.documents)
                /\ ~InList(keyword, plan.objects)

\* C6: normalizing a normalized plan again, with the same sections and
\* configuration, returns the same documents and objects.
C6_NormalizeIdempotent ==
    calls = 2 => plan = prevPlan

\* C8: each list of a normalized plan is strictly increasing in code-point
\* lexicographic order (sorted, and no identifier twice).
C8_SortedNoDuplicates ==
    Normalized =>
        /\ StrictlyIncreasing(plan.documents)
        /\ StrictlyIncreasing(plan.objects)

\* a raw list with a repeated name, and a raw name that a required name
\* duplicates once canonicalized
C8_Witness ==
    /\ calls = 1
    /\ Count(RawObjects, seo) = 2
    /\ InList(raw_Page, RawDocuments)
    /\ plan.objects = <<seo>>
    /\ plan.documents = <<page, siteSettings>>

(***************************************************************************)
(* Properties of the name canonicalizer (SpecCanon).                       *)
(***************************************************************************)
\* C7: to_camel_case applied to its own result returns it unchanged.
C7_CanonicalizeIdempotent ==
    canonCalls = 2 => ident = prevIdent

\* C9: the corrector is idempotent as a whole: applied to the code it
\* returned, with the same valid identifiers and the same expected kind,
\* correct_generated_code returns that code unchanged.
C9_CorrectorIdempotent ==
    Len(returned) = 2 => returned[2] = returned[1]

\* C10: each rule of the corrector is idempotent on its own: applied to the
\* code it produced, a rule returns that code unchanged and records no label.
C10_EachRuleIdempotent ==
    Len(returned) = 2 => returned[2] = returned[1] /\ corrections_applied = <<>>

(***************************************************************************)
(* Properties of one call of the corrector (SpecCorrector).                *)
(***************************************************************************)
\* the rule the source runs in the given position of a call, applied to the
\* code that the rule before it left
RuleInPosition(position) ==
    CASE position = 1  -> _remove_markdown_formatting(code)
      [] position = 2  -> _fix_schema_type(code, expected_type)
      [] position = 3  -> _fix_validation_syntax(code)
      [] position = 4  -> _fix_define_type_in_arrays(code)
      [] position = 5  -> _fix_missing_type_property(code)
      [] position = 6  -> _fix_i18n_fields_property(code)
      [] position = 7  -> _fix_i18n_of_property(code)
      [] position = 8  -> _fix_type_name_casing(code, all_valid_names)
      [] position = 9  -> _ensure_imports(code)
      [] position = 10 -> _fix_invalid_i18n_types(code)
      [] position = 11 -> _simplify_verbose_names(code)
      [] position = 12 -> _fix_mixed_array_types(code)
      [] position = 13 -> _add_missing_preview(code, expected_type)

C11_Step ==
    /\ pc = 0 => pc' = 1 /\ code' = code
    /\ pc \in 1..NumRules =>
           /\ pc' = pc + 1
           /\ \E r \in {RuleInPosition(pc)} :
                  /\ code' = r.code
                  /\ corrections_applied' = corrections_applied \o r.labels
    /\ pc = NumRules + 1 => pc' = 0 /\ returned' = Append(returned, code)

\* C11: every call of correct_generated_code applies its thirteen rules once
\* each, each to the output of the rule before it, in the fixed order
\* envelope stripping, declared kind, validation signature, defineType in
\* lists, member descriptors, fields on localized image/file, of on
\* localized text/string/url/slug, casing, imports, invalid localized types,
\* verbose names, mixed variants, preview; and returns the last output.
C11_FixedRuleOrder == [][C11_Step]_vars

\* a call has run all its rules, and at least two of them rewrote the code
C11_Witness ==
    /\ pc = NumRules + 1
    /\ Len(corrections_applied) >= 2
    /\ code # original_code

\* none of the patterns that the rules search for occurs in the code c: no
\* fence, no quoted type, no typed Rule parameter, no defineType or bare
\* name in a list, none of name:, title:, type:, no invalid localized type,
\* no verbose name, no mixed list
NoRulePattern(c) ==
    /\ ~InCode(Fence, c)
    /\ ~Found(type_pattern, c)
    /\ ~Found(validation_pattern, c)
    /\ ~Found(defineType_in_array_pattern, c)
    /\ ~Found(missing_type_pattern, c)
    /\ ~Found(i18n_image_fields_pattern, c)
    /\ ~Found(i18n_array_of_pattern, c)
    /\ ~(InCode("name:", c) \/ InCode("title:", c) \/ InCode("type:", c))
    /\ \A n \in 1..Len(invalid_i18n_types) : ~InCode(invalid_i18n_types[n][1], c)
    /\ \A n \in 1..Len(verbose_patterns) : ~Found(verbose_patterns[n], c)
    /\ ~Found(mixed_array_pattern, c)

\* C12: when none of the rules' patterns occurs in the code, the empty code
\* included, correct_generated_code returns the code unchanged and records
\* no label, whatever the valid identifiers and the expected kind.
C12_PatternFreeUnchanged ==
    (pc = NumRules + 1 /\ NoRulePattern(original_code))
        => (code = original_code /\ corrections_applied = <<>>)

\* the kind that the code c declares: the name in its first quoted type
DeclaredKind(c) == Group(c, re_search(type_pattern, c), 4, 4)

C13_Step ==
    (pc = 2 /\ expected_type # None /\ Found(type_pattern, code)) =>
        IF DeclaredKind(code) # <<expected_type>>
        THEN /\ Found(type_pattern, code')
             /\ DeclaredKind(code') = <<expected_type>>
             /\ corrections_applied' =
                    Append(corrections_applied,
                           <<"schema type:">> \o DeclaredKind(code)
                               \o <<"->", expected_type>>)
        ELSE /\ code' = code
             /\ corrections_applied' = corrections_applied

\* C13: when the code declares a kind other than the expected kind, the
\* declared-kind rule leaves the code declaring the expected kind and records
\* one label naming the old and the new kind; when the code declares the
\* expected kind already, the rule changes nothing and records nothing.
C13_DeclaredKindEnforced == [][C13_Step]_vars

\* the declared-kind rule has just rewritten the kind of a schema
C13_Witness ==
    /\ pc = 3
    /\ corrections_applied # <<>>
    /\ corrections_applied[Len(corrections_applied)] =
           <<"schema type:", "document", "->", "object">>
    /\ DeclaredKind(code) = <<"object">>

\* the names of the quoted types of the code c, in order
TypeReferences(c) == re_findall(type_pattern, c, 4)

\* a type name in the casing of the valid identifier that it differs from
\* only in letter case; a built-in or internationalizedArray name as it is
ExactCasing(type_name, names) ==
    IF ~IsExempt(type_name) /\ NameMap(type_name, names) # {}
    THEN <<CorrectName(type_name, names)>>
    ELSE type_name

C14_Step ==
    pc = 8 =>
        TypeReferences(code') =
            [i \in 1..Len(TypeReferences(code)) |->
                ExactCasing(TypeReferences(code)[i], all_valid_names)]

\* C14: the casing rule rewrites every type reference that differs only in
\* letter case from a valid identifier to that identifier's casing (type:
\* 'TeamMember' becomes type: 'teamMember'), and leaves every reference to
\* a built-in or internationalizedArray type as it is, even when a valid
\* identifier is that name in another casing.
C14_CasingReconciled == [][C14_Step]_vars

\* the tokens toks occur in the code c, one after the other
HasTokens(c, toks) ==
    \E i \in 0..(Len(c) - Len(toks)) : SubSeq(c, i + 1, i + Len(toks)) = toks

\* where the code c holds a list clause  of: [{'<name>'}]  whose only member
\* is a bare quoted name
BareMembers(c) ==
    {i \in 1..(Len(c) - 8) :
        /\ SubSeq(c, i, i + 4) = <<"of:", " ", "[", "{", "'">>
        /\ c[i + 5] \notin Quote
        /\ SubSeq(c, i + 6, i + 8) = <<"'", "}", "]">>}

\* d is c with  type:  and a blank put in front of the name of every such
\* clause, and nothing else changed
MembersDescribed(c, d) ==
    LET Shift(j) == 2 * Cardinality({p \in BareMembers(c) : p + 3 < j})
    IN  /\ Len(d) = Len(c) + 2 * Cardinality(BareMembers(c))
        /\ \A j \in 1..Len(c) : d[j + Shift(j)] = c[j]
        /\ \A p \in BareMembers(c) :
               SubSeq(d, p + 4 + Shift(p), p + 5 + Shift(p)) = <<"type:", " ">>

C15_Step ==
    pc = 5 =>
        /\ MembersDescribed(code, code')
        /\ corrections_applied' =
               IF BareMembers(code) = {} THEN corrections_applied
               ELSE Append(corrections_applied,
                           <<"added missing 'type:' property in array items">>)

\* C15: the member-descriptor rule turns every list clause whose only member
\* is a bare quoted name, of: [{'<name>'}], into of: [{type: '<name>'}] with
\* the same name, and changes no other part of the code.
C15_BareMemberDescribed == [][C15_Step]_vars

\* the rule has just described the bare member of the tags list
C15_Witness ==
    /\ pc = 6
    /\ corrections_applied # <<>>
    /\ corrections_applied[Len(corrections_applied)] =
           <<"added missing 'type:' property in array items">>
    /\ HasTokens(code, <<"of:", " ", "[", "{", "type:", " ", "'", "widget", "'",
                         "}", "]">>)
    /\ HasTokens(original_code, <<"of:", " ", "[", "{", "'", "widget", "'", "}",
                                  "]">>)

(***************************************************************************)
(* Properties of the validator on the corrector's output (SpecValidator).  *)
(***************************************************************************)
\* the corrector has returned the code, and the issues are those of it
Corrected == corrCalls = 1 /\ pc = 0

\* the issue d is among those that some validate_generated_code call returned
Reported(d) ==
    \E i \in 1..Len(issues) :
        \E j \in 1..Len(issues[i].issues) : issues[i].issues[j] = d

\* C16: when the generated code uses defineType and defineField and holds
\* no import of them, the corrected code begins with the import statement;
\* and the validator's missing-import check reports nothing on the code
\* that the corrector returned.
C16_ImportsCompleted ==
    Corrected =>
        /\ (/\ InCode("defineType", original_code)
            /\ InCode("defineField", original_code)
            /\ ~Found(check_pattern.missing_imports, original_code))
               => /\ Len(code) >= Len(ImportStatement)
                  /\ SubSeq(code, 1, Len(ImportStatement)) = ImportStatement
        /\ ~Reported(<<"warning", "Missing import for defineType/defineField">>)

(***************************************************************************)
(* Properties of the code that the corrector returns (SpecCorrector).      *)
(***************************************************************************)
\* C17: in the code that correct_generated_code returns, no field of type
\* internationalizedArrayText, String, Url or Slug carries an of clause or a
\* fields clause, and no field of type internationalizedArrayImage or File
\* carries a fields clause.
C17_NoNestedClauses ==
    (pc = 0 /\ corrCalls >= 1) =>
        /\ ~Found(i18n_array_of_pattern, code)
        /\ ~Found([i18n_array_of_pattern EXCEPT ![9] = Lit("fields:")], code)
        /\ ~Found(i18n_image_fields_pattern, code)

C18_Step ==
    pc = 13 =>
        IF expected_type \in {"siteSettings", "header", "footer"}
           /\ ~Found(preview_pattern, code)
        THEN /\ HasTokens(code', code)
             /\ HasTokens(code', PreviewBlock)
        ELSE /\ code' = code
             /\ corrections_applied' = corrections_applied

\* C18: when the expected kind is on the singleton list (siteSettings,
\* header, footer) and the generated code holds no preview block, the code
\* that correct_generated_code returns still holds the schema (the code as
\* the rule before the last left it) and also the fallback preview block;
\* when the code holds a preview block, or the expected kind is not on the
\* list, the preview rule changes nothing and records nothing.
C18_PreviewInjected == [][C18_Step]_vars

(***************************************************************************)
(* Properties of the validator (SpecValidator).                            *)
(***************************************************************************)
\* the pattern of the mixed-list check with the composite member first
CompositeFirst ==
    [check_pattern.mixed_array_pattern
        EXCEPT ![10] = One({"reference", "object"}),
               ![20] = One({"url", "string", "number", "boolean"})]

\* C19: validate_generated_code reports the blocking mixed-list issue for
\* every code, generated or returned by the corrector, that holds a list
\* with a primitive member (url, string, number, boolean) and a composite
\* member (reference, object), in whichever order the two come.
C19_MixedListReported ==
    (/\ issues # <<>>
     /\ \/ Found(check_pattern.mixed_array_pattern, code)
        \/ Found(CompositeFirst, code))
        => Reported(<<"error", "Found mixed primitive/object types in array - will break Sanity Studio">>)

C20_Step ==
    Len(issues') = Len(issues) + 1 =>
        /\ UNCHANGED <<code, all_valid_names, expected_type, config>>
        /\ \A i \in 1..Len(issues) :
               issues[i].schema_name = issues'[Len(issues')].schema_name
                   => issues[i].issues = issues'[Len(issues')].issues

C24_Step ==
    pc = 2 =>
        /\ Len(TypeReferences(code')) = Len(TypeReferences(code))
        /\ \A i \in 2..Len(TypeReferences(code)) :
               TypeReferences(code')[i] = TypeReferences(code)[i]

\* C24: the declared-kind rule changes the declared kind of the artifact
\* only: every other type reference of the code (the types of its fields
\* and of its list members, the quoted types after the first) is the same
\* after the rule as before it.
C24_OtherReferencesKept == [][C24_Step]_vars

(***************************************************************************)
(* Properties of the localized-type substitution and the validator's       *)
(* of-on-localized-field check (SpecValidator).                            *)
(***************************************************************************)
\* the localized types whose fields must carry no of clause
LocalizedPlain ==
    {"internationalizedArrayText", "internationalizedArrayString",
     "internationalizedArrayUrl", "internationalizedArraySlug"}

\* the call rewrote a type of the code to internationalizedArrayText, and the
\* code it was given named none of the localized types itself: every field
\* of such a type in the output got its type from the substitution
RewrittenToText ==
    /\ \A i \in 1..Len(original_code) : original_code[i] \notin LocalizedPlain
    /\ \E i \in 1..Len(corrections_applied) :
           /\ corrections_applied[i][1] = "corrected invalid i18n types:"
           /\ \E j \in 1..Len(corrections_applied[i]) :
                  corrections_applied[i][j] = "internationalizedArrayText"

\* C25: in the code that one correct_generated_code call returns, a field
\* whose type the invalid localized-type substitution rewrote to
\* internationalizedArrayText carries no of clause, and the validator's
\* of-on-localized-field check reports nothing on that code.
C25_RewrittenFieldHasNoOf ==
    (Corrected /\ RewrittenToText) =>
        /\ ~Found(i18n_array_of_pattern, code)
        /\ (issues # <<>> =>
               ~Reported(<<"error", "Found 'of' property on internationalizedArray type">>))

(***************************************************************************)
(* Properties of the main execution flow (SpecPipeline).                   *)
(***************************************************************************)
\* the artifacts (name and kind) of a list of schemas, in order
Artifacts(schemas) ==
    [i \in 1..Len(schemas) |-> [name |-> schemas[i].name, type |-> schemas[i].type]]

\* the generation of the schema that the response answers succeeded
Succeeded(response) == ~response.raised /\ response.text # <<>>

\* the loop of _generate_all_schemas has ended
Generated == calls = 1 /\ stage # "generate"

\* C21: when the generation of some planned schemas fails, by an error or
\* an empty response, generation is still attempted for every planned
\* schema, and the artifacts that are corrected, validated and written are
\* exactly the planned schemas whose generation succeeded.
C21_FailureIsolated ==
    Generated =>
        /\ Artifacts(responses) = AllPlannedSchemas(plan)
        /\ Artifacts(all_schema_data) = Artifacts(SelectSeq(responses, Succeeded))
        /\ stage \in {"files", "extras", "done"} =>
               /\ Artifacts(corrected_schemas) = Artifacts(all_schema_data)
               /\ Len(returned) = Len(all_schema_data)
               /\ [i \in 1..Len(issues) |-> issues[i].schema_name] =
                      [i \in 1..Len(all_schema_data) |->
                          TokenOf(all_schema_data[i].name)]
        /\ stage \in {"extras", "done"} =>
               Artifacts(writes) = Artifacts(all_schema_data)

\* a run has written the schemas generated after the generation of an
\* earlier one raised an error and that of another returned an empty text
C21_Witness ==
    /\ stage = "done"
    /\ \E i, j, k \in 1..Len(responses) :
           /\ i < k /\ j < k
           /\ responses[i].raised
           /\ ~responses[j].raised /\ responses[j].text = <<>>
           /\ Succeeded(responses[k])
    /\ writes # <<>>

\* the write call i is the last one made on its path
LastOnPath(i) ==
    \A j \in (i + 1)..Len(writes) : writes[j].path # writes[i].path

\* C22: every artifact passes generation, correction, validation and
\* emission in that order: the validator is given the code that the
\* corrector returned for the artifact, never the generated code; the file
\* written for it holds exactly that corrected code; and nothing is written
\* before the plan has been normalized.
C22_StagesInOrder ==
    /\ Len(writes) <= Len(issues)
    /\ Len(issues) <= Len(returned)
    /\ Len(returned) <= Len(all_schema_data)
    /\ Len(all_schema_data) <= Len(responses)
    /\ (writes # <<>> => Len(issues) = Len(all_schema_data))
    /\ \A i \in 1..Len(issues) : issues[i].code = returned[i]
    /\ \A i \in 1..Len(writes) :
           /\ writes[i].content = returned[i]
           /\ writes[i].path \in DOMAIN disk
           /\ LastOnPath(i) => disk[writes[i].path].code = returned[i]
    /\ (responses # <<>> \/ writes # <<>>) =>
           /\ calls = 1
           /\ plan = _process_architectural_plan(rawPlan, sections, config)

\* a run has written a schema whose corrected code differs from the code
\* that was generated for it
C22_Witness ==
    /\ stage = "done"
    /\ \E i \in 1..Len(writes) :
           /\ writes[i].content # all_schema_data[i].code
           /\ issues[i].code = writes[i].content
           /\ disk[writes[i].path].code = writes[i].content

C26_Step ==
    /\ (disk' # disk \/ writes' # writes \/ stage' = "files") =>
           /\ sections # <<>>
           /\ DOMAIN rawPlan # {} /\ calls = 1
           /\ all_schema_data # <<>>
           /\ stage \in {"correct", "files", "extras"}
    /\ stage' = "exit" =>
           /\ stage \in {"get_sections", "phase_one", "generate", "exit"}
           /\ disk' = disk
           /\ writes' = <<>>

\* C26: the schemas directory is deleted, and files are written, only in
\* a run in which sections were found, a plan was produced and at least one
\* schema was generated; a run that ends early (no section, no plan, or no
\* generated schema) changes no file and leaves the schemas directory as
\* it was.
C26_NoDeletionInEarlyExit == [][C26_Step]_vars

\* a run has ended after the generation of every planned schema failed, and
\* the files of the earlier run are still there
C26_Witness ==
    /\ stage = "exit"
    /\ calls = 1
    /\ Len(responses) = Len(AllPlannedSchemas(plan))
    /\ all_schema_data = <<>>
    /\ disk = [q \in {[folder |-> "documents", file |-> <<"o", "l", "d", ".", "t", "s">>],
                      IndexPath, ConfigPath} |-> FileContent(<<"stale">>, <<>>, <<>>)]

\* the validator reported a blocking issue on the schema i
Blocked(i) ==
    \E j \in 1..Len(issues[i].issues) : issues[i].issues[j][1] = "error"

\* C27: every schema whose generation succeeded is written exactly once,
\* into the documents folder when its kind is document and into the objects
\* folder otherwise, with its corrected code, whatever issues the validator
\* reported on it: a blocking issue neither stops nor alters the writing.
C27_EveryArtifactWritten ==
    stage \in {"extras", "done"} =>
        \A i \in 1..Len(all_schema_data) :
            /\ Cardinality({k \in 1..Len(writes) :
                                /\ writes[k].name = all_schema_data[i].name
                                /\ writes[k].type = all_schema_data[i].type}) = 1
            /\ writes[i].name = all_schema_data[i].name
            /\ writes[i].type = all_schema_data[i].type
            /\ writes[i].path.folder =
                   IF all_schema_data[i].type = "document"
                   THEN "documents" ELSE "objects"
            /\ writes[i].path.file =
                   to_kebab_case(all_schema_data[i].name) \o <<".", "t", "s">>
            /\ writes[i].content = returned[i]
            /\ writes[i].path \in DOMAIN disk

\* a run has written a document and an object, one of them a schema on
\* which the validator reported a blocking issue
C27_Witness ==
    /\ stage = "done"
    /\ \E i, j \in 1..Len(writes) :
           /\ Blocked(i)
           /\ ~Blocked(j)
           /\ writes[i].path.folder # writes[j].path.folder

\* the index file of the run
Index == disk[IndexPath]

\* C28: the index file imports every written schema exactly once, from the
\* folder that the schema's own file was written to, and lists every
\* exported name exactly once, for every plan that the normalizer returns.
C28_IndexMatchesFiles ==
    stage \in {"extras", "done"} =>
        /\ \A k \in 1..Len(writes) :
               Cardinality({i \in 1..Len(Index.imports) :
                               /\ Index.imports[i].name = writes[k].name
                               /\ Index.imports[i].folder = writes[k].path.folder
                               /\ Index.imports[i].file \o <<".", "t", "s">> =
                                      writes[k].path.file}) = 1
        /\ Len(Index.imports) = Len(writes)
        /\ \A k \in 1..Len(writes) :
               Cardinality({i \in 1..Len(Index.names) :
                               Index.names[i] = writes[k].name}) = 1

(***************************************************************************)
(* Properties of the schema analysis of the UI generator (SpecSchemas).    *)
(***************************************************************************)
\* the names of the utility types
UtilityName(name) ==
    \/ name[1] \in {"Sanity", "InternationalizedArray"}
    \/ name = <<"CrossDatasetReference">>

\* C30: a type whose name starts with Sanity or InternationalizedArray, or
\* is CrossDatasetReference, is never in the map that
\* get_all_sanity_schemas_as_json builds, whatever its body holds.
C30_UtilityTypesSkipped ==
    uiCalls = 1 => \A name \in DOMAIN all_schemas : ~UtilityName(name)

(***************************************************************************)
(* Properties of manual_parse_fallback (SpecFallback).                     *)
(***************************************************************************)
\* the parser is inside a code fence when it reads line i of the lines L:
\* the fence lines read before it, not counting a line that started a file,
\* are odd in number
RECURSIVE InFence(_, _)
InFence(L, i) ==
    LET After(line, inside) ==
            IF IsFenceLine(line) /\ ~(InText("FILEPATH:", line) /\ ~inside)
            THEN ~inside ELSE inside
    IN  i > 1 /\ After(L[i - 1], InFence(L, i - 1))

\* line i holds FILEPATH: and is read outside a fence
StartsFile(L, i) == InText("FILEPATH:", L[i]) /\ ~InFence(L, i)

\* line i opens or closes a fence
FenceAt(L, i) == IsFenceLine(L[i]) /\ ~StartsFile(L, i)

\* the first line after line i that starts a file; Len(L) + 1 when none does
NextStart(L, i) ==
    Least({j \in (i + 1)..Len(L) : StartsFile(L, j)} \cup {Len(L) + 1})

\* the lines after the FILEPATH line i and before the next one that are read
\* inside a fence and are no fence lines; with closed, only those that a
\* closing fence follows before the next FILEPATH line
FencedLines(L, i, closed) ==
    {j \in (i + 1)..(NextStart(L, i) - 1) :
        /\ InFence(L, j)
        /\ ~FenceAt(L, j)
        /\ closed => \E c \in (j + 1)..(NextStart(L, i) - 1) : FenceAt(L, c)}

\* the elements of a set of numbers, in order
Ascending(S) ==
    [k \in 1..Cardinality(S) |->
        CHOOSE x \in S : Cardinality({y \in S : y < x}) = k - 1]

\* the text of the lines of FencedLines, stripped
FencedContent(L, i, closed) ==
    Strip(JoinLines([k \in 1..Cardinality(FencedLines(L, i, closed)) |->
                        L[Ascending(FencedLines(L, i, closed))[k]]]))

\* one (path, content) pair for every FILEPATH line read outside a fence that
\* names a path and has fenced content that is not empty, in order
FencedFiles(L, closed) ==
    LET Starters ==
            Ascending({i \in 1..Len(L) :
                          /\ StartsFile(L, i)
                          /\ PathOf(L[i]) # <<>>
                          /\ FencedContent(L, i, closed) # <<>>})
    IN  [k \in 1..Len(Starters) |->
            <<PathOf(L[Starters[k]]), FencedContent(L, Starters[k], closed)>>]

\* C29 as stated: a line holding FILEPATH: starts a new file only outside a
\* code fence; the content of every returned file is made only of the lines
\* read between an opening and a closing fence after the file's FILEPATH
\* line and before the next one; fence lines are never content; a FILEPATH
\* line with no fenced content that is not empty yields no file.
C29_ClosedFenceContent ==
    uiCalls = 1 => files = FencedFiles(SplitLines(ai_response), TRUE)

\* C29: a line holding FILEPATH: starts a new file only outside a code
\* fence; the content of every returned file is made only of the lines read
\* inside a fence, after its opening line and before its closing line or
\* the end of the answer when the fence is never closed, after the file's
\* FILEPATH line and before the next one; fence lines are never content; a
\* FILEPATH line with no fenced content that is not empty yields no file.
C29_FencedContent ==
    uiCalls = 1 => files = FencedFiles(SplitLines(ai_response), FALSE)

\* the parser has returned a file whose content holds a FILEPATH line that
\* it read inside a fence
C29_Witness ==
    /\ uiCalls = 1
    /\ \E k \in 1..Len(files) : InText("FILEPATH:", files[k][2])

(***************************************************************************)
(* Properties of parse_and_create_files (SpecParse).                       *)
(***************************************************************************)
\* the blocks of the form "// FILEPATH: <path>", then a fenced code block
WellFormedBlocks ==
    {b \in ResponseBlocks :
        /\ b.header[1] = "//"
        /\ SubSeq(b.header, 1, 4) = <<"//", " ", "FILEPATH:", " ">>
        /\ b.header[5] # " " /\ b.header[Len(b.header)] # " "
        /\ b.fence \in {<<Fence, "tsx">>, <<Fence>>}
        /\ b.closed}

\* the last segment of the path of a block
BlockName(b) == <<b.header[Len(b.header)]>>

\* the place of the file of that name
BlockPath(b) ==
    [folder |-> IF BlockName(b) = <<"page.tsx">> THEN "page_dir"
                ELSE "component_dir",
     file |-> BlockName(b)]

\* C23: for an answer made of N blocks, each a "// FILEPATH: <path>" line
\* immediately followed by a fenced code block, with N distinct file names,
\* exactly N files are created, each named by the last segment of its path
\* and holding the content of its block (without the white space around
\* it), page.tsx under the page directory and the others under the
\* component directory
C23_OneFilePerBlock ==
    uiCalls = 1 =>
        \A blocks \in SeqsUpTo(WellFormedBlocks, MaxBlocks) \ {<<>>} :
            \A blank \in BOOLEAN :
                (/\ ai_response = ResponseOf(blocks, blank)
                 /\ \A j, k \in 1..Len(blocks) :
                        j # k => BlockName(blocks[j]) # BlockName(blocks[k]))
                => /\ DOMAIN files_created =
                          {BlockName(blocks[k]) : k \in 1..Len(blocks)}
                   /\ DOMAIN disk = {BlockPath(blocks[k]) : k \in 1..Len(blocks)}
                   /\ \A k \in 1..Len(blocks) :
                         /\ files_created[BlockName(blocks[k])] = BlockPath(blocks[k])
                         /\ disk[BlockPath(blocks[k])]
                                = Strip(JoinLines(blocks[k].content))
====
